---- MODULE Spec2Model ----
(***************************************************************************)
(* The video processing pipeline of webinar.ai: the "process" route, the   *)
(* normalize and render workers of video-processor.ts, the BullMQ queues   *)
(* they share, and the dashboard's "Reset & Retry".  One project is        *)
(* modelled.  A worker's job is split into steps at the awaited store and  *)
(* queue calls that other jobs can interleave with; the route's two halves *)
(* and the reset are taken as one step each.                               *)
(***************************************************************************)
EXTENDS Integers, Sequences, FiniteSets, TLC

VARIABLES
  project,   \* projects.status of the project
  seg,       \* segments table: segment id -> row
  variants,  \* variants table: variant id -> row
  gen,       \* number of variant batches inserted so far (fresh uuids)
  rows,      \* processing_jobs table, in insertion order
  blob,      \* keys present in the R2 bucket
  normQ,     \* BullMQ queue "normalize": jobId (segment id) -> job
  renderQ,   \* BullMQ queue "render": jobs in order of addition
  req,       \* the process route's request in flight and its last response
  used,      \* injected faults, manual resets and repeated enqueues so far
  call       \* the last call of a library function or of a viewer-facing
             \* route: its arguments and what it returned

\* the tables, the bucket, the queues and the process route
pipeline == <<project, seg, variants, gen, rows, blob, normQ, renderQ, req, used>>

vars == <<project, seg, variants, gen, rows, blob, normQ, renderQ, req, used, call>>

----------------------------------------------------------------------------
(* Bounds of the model *)

MaxFails == 3
MaxCrashes == 1
MaxResets == 1
MaxRenderJobs == 8
MaxAgain == 1
MaxPatches == 1
MaxSortOrder == 1
MaxCount == 5
MaxStalls == 1

(* Program constants *)

Attempts == 3
DefaultAttempts == 1
NormalizeConcurrency == 2
RenderConcurrency == 4

(* The segment inventory of the project: id -> type given at creation *)
SegType == [h1 |-> "hook", h2 |-> "hook", b1 |-> "body", c1 |-> "cta"]
AllSegs == DOMAIN SegType
CoreSegs == {"h1", "b1", "c1"}

NoErr == "null"

----------------------------------------------------------------------------
(* Storage key scheme *)

originalSegmentKey(s) == <<"segments", s, "original">>
normalizedSegmentKey(s) == <<"segments", s, "normalized.mp4">>
variantVideoKey(v) == <<"variants", v, "video.mp4">>
variantHookClipKey(v) == <<"variants", v, "hook-clip.mp4">>
variantPosterKey(v) == <<"variants", v, "poster.jpg">>

----------------------------------------------------------------------------
(* Table helpers *)

\* supabase .update(patch).eq("target_id", t).eq("job_type", ty): every
\* matching row is patched; no row matching is not an error.
UpdateJobRows(rs, ty, t, st, er, done) ==
  [i \in 1..Len(rs) |->
     IF rs[i].type = ty /\ rs[i].target = t
       THEN [rs[i] EXCEPT !.status = st,
                          !.err = IF er = NoErr THEN @ ELSE er,
                          !.done = done,
                          !.progress = IF st = "completed" THEN 100 ELSE @]
       ELSE rs[i]]

\* supabase .update({status: "active", started_at}): started_at is set,
\* completed_at is left as it is.
StartJobRows(rs, ty, t) ==
  [i \in 1..Len(rs) |->
     IF rs[i].type = ty /\ rs[i].target = t
       THEN [rs[i] EXCEPT !.status = "active"]
       ELSE rs[i]]

NewJobRow(ty, t) ==
  [type |-> ty, target |-> t, status |-> "queued", err |-> NoErr,
   done |-> FALSE, progress |-> 0]

\* A variant id is a fresh uuid per insert: the batch number and the triple.
VariantId(g, h, b, c) == <<g, h, b, c>>
HookOf(v) == v[2]
BodyOf(v) == v[3]
CtaOf(v) == v[4]

\* Strings are not ordered in TLC: the position of a segment in its table.
SegRank == [h1 |-> 1, h2 |-> 2, b1 |-> 3, c1 |-> 4]

RECURSIVE OrderSegs(_)
OrderSegs(S) ==
  IF S = {} THEN <<>>
  ELSE LET m == CHOOSE x \in S : \A y \in S : SegRank[x] <= SegRank[y]
       IN <<m>> \o OrderSegs(S \ {m})

\* Variant rows in the order the store returns them (batch, then hook).
RECURSIVE OrderVariants(_)
OrderVariants(S) ==
  IF S = {} THEN <<>>
  ELSE LET m == CHOOSE x \in S : \A y \in S :
                  \/ x[1] < y[1]
                  \/ x[1] = y[1] /\ SegRank[HookOf(x)] <= SegRank[HookOf(y)]
       IN <<m>> \o OrderVariants(S \ {m})

\* supabase .update(patch).eq("id", v) on variants: no row is not an error.
\* hook_end_time_ms: hookDurationMs, written with the status rendered
SetHookEnd(vs, v, d) ==
  [x \in DOMAIN vs |->
     IF x = v THEN [vs[x] EXCEPT !.hook_end_time_ms = d] ELSE vs[x]]

UpdateVariant(vs, v, st, er) ==
  [x \in DOMAIN vs |->
     IF x = v THEN [vs[x] EXCEPT !.status = st,
                                 !.err = IF er = NoErr THEN @ ELSE er]
     ELSE vs[x]]

----------------------------------------------------------------------------
(* generateCombinations: hooks x bodies x ctas of a list of segments       *)

\* segments.type of a segment row
TypeOf(s) == seg[s].type

\* Array.prototype.filter((s) => s.type === ty)
filter(segments, ty) == SelectSeq(segments, LAMBDA s : s.type = ty)

\* the list left in the order of the input
unsorted(list) == list

\* Array.prototype.sort((a, b) => a.sort_order - b.sort_order).  The sort is
\* stable: elements the comparator calls equal keep the order of the input.
RECURSIVE sort(_)
sort(list) ==
  IF list = <<>> THEN <<>>
  ELSE LET front == sort(SubSeq(list, 1, Len(list) - 1))
           last == list[Len(list)]
           k == Cardinality({i \in 1..Len(front) :
                               front[i].sort_order <= last.sort_order})
       IN SubSeq(front, 1, k) \o <<last>> \o SubSeq(front, k + 1, Len(front))

\* variantCode: `h${hi + 1}-b${bi + 1}-c${ci + 1}`, hi, bi and ci 0-based
variantCodeAt(hi, bi, ci) ==
  "h" \o ToString(hi + 1) \o "-b" \o ToString(bi + 1) \o "-c" \o ToString(ci + 1)

\* The result is the array returned, or thrown = TRUE for the Error of lines
\* 136-140.  The nested forEach pushes the combinations hook-major.
generateCombinations(segments) ==
  LET hooks == sort(filter(segments, "hook"))
      bodies == sort(filter(segments, "body"))
      ctas == sort(filter(segments, "cta"))
      B == Len(bodies)
      C == Len(ctas)
  IN IF Len(hooks) = 0 \/ B = 0 \/ C = 0
       THEN [thrown |-> TRUE, combinations |-> <<>>]
       ELSE [thrown |-> FALSE,
             combinations |->
               [n \in 1..(Len(hooks) * B * C) |->
                  LET hi == (n - 1) \div (B * C)
                      bi == ((n - 1) \div C) % B
                      ci == (n - 1) % C
                  IN [hook |-> hooks[hi + 1], body |-> bodies[bi + 1],
                      cta |-> ctas[ci + 1],
                      variantCode |-> variantCodeAt(hi, bi, ci)]]]

\* segments.sort_order of the project's rows: POST /segments gives a new
\* segment the count of the segments of its type
sort_order == [h1 |-> 0, h2 |-> 1, b1 |-> 0, c1 |-> 0]

\* the rows of S as the process route passes them to generateCombinations,
\* in the order the store returns them
typedSegments(S) ==
  LET ids == OrderSegs(S)
  IN [i \in 1..Len(ids) |->
        [id |-> ids[i], type |-> TypeOf(ids[i]), sort_order |-> sort_order[ids[i]]]]

\* the combinations of the rows of S
combinationsOf(S) ==
  LET made == generateCombinations(typedSegments(S)).combinations
  IN {made[n] : n \in 1..Len(made)}

\* variantInserts: the (hook, body, cta) ids of the rows to insert
variantInserts(S) == {<<c.hook.id, c.body.id, c.cta.id>> : c \in combinationsOf(S)}

\* variant_code of the row inserted for (h, b, c)
variantCode(S, h, b, c) ==
  (CHOOSE x \in combinationsOf(S) :
     x.hook.id = h /\ x.body.id = b /\ x.cta.id = c).variantCode

----------------------------------------------------------------------------
(* needsNormalization(metadata, spec).  The frame rate, which the prober   *)
(* rounds to two decimals, is kept in hundredths of a frame per second.    *)

\* null, and NaN from parseInt of a missing value, in a numeric field
Null == 0 - 1

\* DEFAULT_SPEC with the project's target_* columns at their defaults, and a
\* project that targets 720p HEVC with Opus audio at 48 kHz
DEFAULT_SPEC ==
  [width |-> 1920, height |-> 1080, fps |-> 3000, videoCodec |-> "libx264",
   audioCodec |-> "aac", audioRate |-> 44100, audioChannels |-> 2]
Specs ==
  {DEFAULT_SPEC,
   [width |-> 1280, height |-> 720, fps |-> 3000, videoCodec |-> "libx265",
    audioCodec |-> "libopus", audioRate |-> 48000, audioChannels |-> 2]}

\* codecMap[spec.videoCodec] || spec.videoCodec
targetCodecName(spec) ==
  CASE spec.videoCodec = "libx264" -> "h264"
    [] spec.videoCodec = "libx265" -> "hevc"
    [] OTHER -> spec.videoCodec

\* audioCodecMap[spec.audioCodec] || spec.audioCodec
targetAudioCodec(spec) ==
  CASE spec.audioCodec = "aac" -> "aac"
    [] spec.audioCodec = "libopus" -> "opus"
    [] OTHER -> spec.audioCodec

\* a number in a condition: null, NaN and 0 are false
Truthy(x) == x # Null /\ x # 0

\* Math.abs(metadata.fps - spec.fps) > 0.5, in hundredths
FpsDiffers(metadata, spec) ==
  (IF metadata.fps >= spec.fps THEN metadata.fps - spec.fps
   ELSE spec.fps - metadata.fps) > 50

\* reasons.push(...) when the condition holds; a reason is kept as its
\* leading words
Push(reasons, condition, reason) ==
  IF condition THEN Append(reasons, reason) ELSE reasons

needsNormalization(metadata, spec) ==
  LET r1 == Push(<<>>, metadata.width # spec.width \/ metadata.height # spec.height,
                 "resolution")
      r2 == Push(r1, FpsDiffers(metadata, spec), "fps")
      r3 == Push(r2, metadata.video_codec # targetCodecName(spec), "video codec")
      r4 == IF ~metadata.has_audio
              THEN Append(r3, "no audio track")
              ELSE LET a1 == Push(r3, metadata.audio_codec # targetAudioCodec(spec),
                                  "audio codec")
                       a2 == Push(a1, Truthy(metadata.audio_sample_rate)
                                        /\ metadata.audio_sample_rate # spec.audioRate,
                                  "audio rate")
                   IN Push(a2, Truthy(metadata.audio_channels)
                                 /\ metadata.audio_channels # spec.audioChannels,
                           "audio channels")
  IN [needed |-> Len(r4) > 0, reasons |-> r4]

\* what probeVideo reports of the original of each segment of the project:
\* h1 conforms to the default spec, b1 conforms but for a frame rate of
\* 29.97, h2 is 720p and c1 has no audio track
Conforming ==
  [width |-> 1920, height |-> 1080, fps |-> 3000, video_codec |-> "h264",
   audio_codec |-> "aac", audio_sample_rate |-> 44100, audio_channels |-> 2,
   has_audio |-> TRUE]
\* duration_ms as probeVideo returns it for each segment's normalized file
\* (0 when ffprobe gives no duration)
ProbedDuration == [h1 |-> 4000, h2 |-> 0, b1 |-> 9000, c1 |-> 3000]

Probed ==
  [h1 |-> Conforming,
   h2 |-> [Conforming EXCEPT !.width = 1280, !.height = 720],
   b1 |-> [Conforming EXCEPT !.fps = 2997],
   c1 |-> [Conforming EXCEPT !.has_audio = FALSE, !.audio_codec = "null",
                             !.audio_sample_rate = Null,
                             !.audio_channels = Null]]

\* a worker that re-encodes whatever the check says
AlwaysNormalizeVideo(check) == "normalizeVideo"

\* lines 889-904: normalizeVideo if check.needed, else remuxWithFaststart
Transcode(check) ==
  IF check.needed THEN "normalizeVideo" ELSE "remuxWithFaststart"

----------------------------------------------------------------------------
(* BullMQ *)

\* ran: which of normalizeVideo and remuxWithFaststart the execution under
\* way, or the last one, has invoked
\* old: where an earlier execution of the job stands that is still running
\* after its lock expired ("-": there is none)
\* reported: the values the execution under way, or the last one, has
\* passed to job.updateProgress; wrote: it has written the status
\* normalized (rendered, for a render job)
NewJob(n) == [state |-> "waiting", made |-> 0, attempts |-> n,
              pc |-> "-", err |-> NoErr, dir |-> FALSE, ran |-> "-",
              old |-> "-", reported |-> <<>>, wrote |-> FALSE]

\* the arguments of job.updateProgress, in the order of the calls
ReportAtStart == <<10>>
NormalizeWorkReports == <<20, 30, 70, 90>>
NormalizeCompleteReports == <<95>>
RenderWorkReportsUnordered == <<30, 50, 60, 85, 75, 90>>
RenderWorkReports == <<30, 50, 60, 75, 85, 90>>
ReportAtEnd == <<100>>

\* enqueueNormalize: Queue.add with jobId normalize-{segmentId}; a job with
\* that id that is still in the queue (in any state: failed jobs are kept
\* 7 days, completed ones 24 hours) makes the add a no-op.
enqueueNormalize(q, s) ==
  IF s \in DOMAIN q THEN q
  ELSE [x \in DOMAIN q \cup {s} |-> IF x = s THEN NewJob(Attempts) ELSE q[x]]

NewRenderJob(v, keyed, n) ==
  [vid |-> v, keyed |-> keyed, state |-> "waiting", made |-> 0,
   attempts |-> n, pc |-> "-", err |-> NoErr, saw |-> FALSE,
   dir |-> FALSE, reported |-> <<>>, wrote |-> FALSE,
   hookDurationMs |-> Null]

\* the hook's normalized_duration_ms as the process route has it: from the
\* segments it read at the start of the request
RouteDuration(v) ==
  IF HookOf(v) \in DOMAIN req.snap
    THEN req.snap[HookOf(v)].ndur
    ELSE seg[HookOf(v)].ndur

WithDuration(j, d) == [j EXCEPT !.hookDurationMs = d]

\* enqueueRender without the jobId option: every call adds a job
enqueueRenderUnkeyed(q, v) ==
  Append(q, WithDuration(NewRenderJob(v, TRUE, Attempts), RouteDuration(v)))

\* enqueueRender: Queue.add with jobId render-{variantId} on the shared
\* renderQueue (attempts: 3).
enqueueRender(q, v) ==
  IF \E i \in 1..Len(q) : q[i].keyed /\ q[i].vid = v THEN q
  ELSE Append(q, WithDuration(NewRenderJob(v, TRUE, Attempts),
                              RouteDuration(v)))

\* a payload built without the hook's duration
addRenderNoDuration(q, v) == Append(q, NewRenderJob(v, FALSE, DefaultAttempts))

\* renderQueue.add(name, data) on the worker's own Queue("render"): no jobId
\* and no job options; hookDurationMs is hook.normalized_duration_ms! of the
\* segments the check has just read.
addRender(q, v) ==
  Append(q, WithDuration(NewRenderJob(v, FALSE, DefaultAttempts),
                         seg[HookOf(v)].ndur))

\* The queue's answer to a handler that threw: retry while attempts remain.
MoveToFailed(j) ==
  [j EXCEPT !.made = @ + 1,
            !.state = IF j.made + 1 < j.attempts THEN "waiting" ELSE "failed",
            !.pc = "-"]

MoveToCompleted(j) == [j EXCEPT !.state = "completed", !.pc = "-"]

\* a finally block that leaves the job's working directory behind
KeepWorkDir(j) == j

\* finally: rm(workDir, {recursive: true, force: true}); dir says whether
\* the directory wai-normalize-{job.id} / wai-render-{job.id} exists
RemoveWorkDir(j) == [j EXCEPT !.dir = FALSE]

ActiveNormalize == {s \in DOMAIN normQ : normQ[s].state = "active"}
ActiveRender == {i \in 1..Len(renderQ) : renderQ[i].state = "active"}

----------------------------------------------------------------------------
(* Initial state: the project is a draft whose segment rows were created   *)
(* by POST /segments (status uploading); nothing is stored or queued yet.  *)

\* the route's responses: nothing sent yet, NextResponse.json(..., 200) and
\* errorResponse(message) with its default status 400
NoResponse == [status |-> 0, error |-> "-"]
Success == [status |-> 200, error |-> "-"]
errorResponse(message) == [status |-> 400, error |-> message]

\* no library function or viewer-facing route has been called
NoCall == [fn |-> "-"]

\* a second, concurrent request to the process route: not started
SecondIdle(resp) == [pc |-> "idle", snap |-> <<>>, resp |-> resp]

\* ndur: normalized_duration_ms (Null until the segment is normalized);
\* okey: original_storage_key is set (POST /segments sets it on insert)
NewSegment(s) ==
  [type |-> SegType[s], status |-> "uploading", err |-> NoErr, nkey |-> FALSE,
   ndur |-> Null, okey |-> TRUE]

InitWith(S) ==
  /\ project = "draft"
  /\ seg = [s \in S |-> NewSegment(s)]
  /\ variants = <<>>
  /\ gen = 0
  /\ rows = <<>>
  /\ blob = {}
  /\ normQ = <<>>
  /\ renderQ = <<>>
  /\ req = [pc |-> "idle", snap |-> <<>>, resp |-> NoResponse,
            second |-> SecondIdle(NoResponse)]
  /\ used = [fails |-> 0, crashes |-> 0, resets |-> 0,
             againN |-> 0, againR |-> 0, patches |-> 0, stalls |-> 0]
  /\ call = NoCall

\* The uploader stores the file and PATCHes the segment to "uploaded".
CompleteUpload(s) ==
  /\ s \in DOMAIN seg
  /\ seg[s].status = "uploading"
  /\ seg' = [seg EXCEPT ![s].status = "uploaded"]
  /\ blob' = blob \cup {originalSegmentKey(s)}
  /\ UNCHANGED <<project, variants, gen, rows, normQ, renderQ, req, used, call>>

\* PATCH /segments/[segmentId] with body {type: ty}: the body is passed to
\* .update() as it is, whatever the project's status and the variants that
\* reference the segment.
PatchType(s, ty) ==
  /\ s \in DOMAIN seg
  /\ ty # seg[s].type
  /\ used.patches < MaxPatches
  /\ seg' = [seg EXCEPT ![s].type = ty]
  /\ used' = [used EXCEPT !.patches = @ + 1]
  /\ UNCHANGED <<project, variants, gen, rows, blob, normQ, renderQ, req, call>>

\* PATCH /segments/[segmentId] with body {original_storage_key: null}
PatchOriginalKey(s) ==
  /\ s \in DOMAIN seg
  /\ seg[s].okey
  /\ used.patches < MaxPatches
  /\ seg' = [seg EXCEPT ![s].okey = FALSE]
  /\ used' = [used EXCEPT !.patches = @ + 1]
  /\ UNCHANGED <<project, variants, gen, rows, blob, normQ, renderQ, req, call>>

----------------------------------------------------------------------------
(* POST /api/projects/[projectId]/process *)

\* the segments the route considers: .in("status", ["uploaded","normalized"])
Considered == {s \in DOMAIN seg : seg[s].status \in {"uploaded", "normalized"}}

HasEachType(S) ==
  /\ \E s \in S : TypeOf(s) = "hook"
  /\ \E s \in S : TypeOf(s) = "body"
  /\ \E s \in S : TypeOf(s) = "cta"

\* a variants table without the UNIQUE constraint
InsertUnconstrained(combos) == TRUE

\* UNIQUE(project_id, hook_segment_id, body_segment_id, cta_segment_id)
InsertAllowed(combos) ==
  \A v \in DOMAIN variants : <<HookOf(v), BodyOf(v), CtaOf(v)>> \notin combos

\* Lines 58-85: the request is answered with an error before anything is
\* written: the project is not a draft, or a type has no considered segment.
PostReject ==
  /\ req.pc = "idle"
  /\ \/ /\ project # "draft"
        /\ req' = [req EXCEPT !.resp = errorResponse("Project is already processing or complete")]
     \/ /\ project = "draft"
        /\ ~HasEachType(Considered)
        /\ req' = [req EXCEPT !.resp = errorResponse("Need at least one of each segment type")]
  /\ UNCHANGED <<project, seg, variants, gen, rows, blob, normQ, renderQ, used, call>>

\* a route without the check of lines 77-85
PostStartUnvalidated ==
  /\ req.pc = "idle"
  /\ project = "draft"
  /\ LET combos == variantInserts(Considered)
         fresh == {VariantId(gen + 1, c[1], c[2], c[3]) : c \in combos}
     IN /\ InsertAllowed(combos)
        /\ variants' = [v \in DOMAIN variants \cup fresh |->
                          IF v \in fresh
                            THEN [status |-> "pending", err |-> NoErr,
                                  hook_end_time_ms |-> Null,
                                  code |-> variantCode(Considered, HookOf(v),
                                                       BodyOf(v), CtaOf(v))]
                            ELSE variants[v]]
  /\ gen' = gen + 1
  /\ project' = "processing"
  /\ req' = [req EXCEPT !.pc = "enqueue",
                         !.snap = [s \in Considered |-> seg[s]],
                         !.resp = NoResponse]
  /\ UNCHANGED <<seg, rows, blob, normQ, renderQ, used, call>>

\* Lines 47-119: the draft check, the validation, the variant insert and the
\* switch to "processing".  A rejected request changes nothing (PostReject).
PostStart ==
  /\ req.pc = "idle"
  /\ project = "draft"
  /\ HasEachType(Considered)
  /\ LET combos == variantInserts(Considered)
         fresh == {VariantId(gen + 1, c[1], c[2], c[3]) : c \in combos}
     IN /\ InsertAllowed(combos)
        /\ variants' = [v \in DOMAIN variants \cup fresh |->
                          IF v \in fresh
                            THEN [status |-> "pending", err |-> NoErr,
                                  hook_end_time_ms |-> Null,
                                  code |-> variantCode(Considered, HookOf(v),
                                                       BodyOf(v), CtaOf(v))]
                            ELSE variants[v]]
  /\ gen' = gen + 1
  /\ project' = "processing"
  /\ req' = [req EXCEPT !.pc = "enqueue",
                         !.snap = [s \in Considered |-> seg[s]],
                         !.resp = NoResponse]
  /\ UNCHANGED <<seg, rows, blob, normQ, renderQ, used, call>>

\* A second request, concurrent with the first: lines 47-85, it finds the
\* project draft and reads the uploaded/normalized segments.
SecondRead ==
  /\ req.second.pc = "idle"
  /\ project = "draft"
  /\ HasEachType(Considered)
  /\ req' = [req EXCEPT !.second = [pc |-> "insert",
                                    snap |-> [s \in Considered |-> seg[s]],
                                    resp |-> NoResponse]]
  /\ UNCHANGED <<project, seg, variants, gen, rows, blob, normQ, renderQ, used, call>>

\* Lines 87-119 of the second request: the insert of its variant rows in one
\* statement.  The store rejects the whole insert when a row breaks the
\* UNIQUE constraint and the request ends with an error; otherwise the
\* request sets the project to processing and goes on as the request in
\* flight.
SecondInsert ==
  /\ req.second.pc = "insert"
  /\ LET S == DOMAIN req.second.snap
         combos == variantInserts(S)
         fresh == {VariantId(gen + 1, c[1], c[2], c[3]) : c \in combos}
     IN IF InsertAllowed(combos)
          THEN /\ req.pc = "idle"
               /\ variants' = [v \in DOMAIN variants \cup fresh |->
                                 IF v \in fresh
                                   THEN [status |-> "pending", err |-> NoErr,
                                         hook_end_time_ms |-> Null,
                                         code |-> variantCode(S, HookOf(v),
                                                              BodyOf(v), CtaOf(v))]
                                   ELSE variants[v]]
               /\ gen' = gen + 1
               /\ project' = "processing"
               /\ req' = [req EXCEPT !.pc = "enqueue",
                                      !.snap = req.second.snap,
                                      !.resp = NoResponse,
                                      !.second = SecondIdle(NoResponse)]
          ELSE /\ req' = [req EXCEPT !.second =
                            SecondIdle(errorResponse("Failed to create variants"))]
               /\ UNCHANGED <<project, variants, gen>>
  /\ UNCHANGED <<seg, rows, blob, normQ, renderQ, used, call>>

\* toNormalize of the request: the considered segments still "uploaded"
ToNormalize == {s \in DOMAIN req.snap : req.snap[s].status = "uploaded"}

RECURSIVE EnqueueNormalizeAll(_, _)
EnqueueNormalizeAll(q, sq) ==
  IF sq = <<>> THEN q
  ELSE EnqueueNormalizeAll(enqueueNormalize(q, Head(sq)), Tail(sq))

RECURSIVE EnqueueRenderAll(_, _)
EnqueueRenderAll(q, sq) ==
  IF sq = <<>> THEN q
  ELSE EnqueueRenderAll(enqueueRender(q, Head(sq)), Tail(sq))

\* the direct path's variants: pending rows whose three segments are in the
\* request's segment map with a normalized key (and a hook duration)
DirectTargets ==
  OrderVariants({v \in DOMAIN variants :
     /\ variants[v].status = "pending"
     /\ \A s \in {HookOf(v), BodyOf(v), CtaOf(v)} :
          s \in DOMAIN req.snap /\ req.snap[s].nkey
     /\ Truthy(req.snap[HookOf(v)].ndur)})

\* the place in the normalize loop where the route returns early: the first
\* segment without an original_storage_key (0: the loop runs to its end)
MissingFile(todo) ==
  LET missing == {k \in 1..Len(todo) : ~req.snap[todo[k]].okey}
  IN IF missing = {} THEN 0
     ELSE CHOOSE k \in missing : \A m \in missing : k <= m

\* Lines 121-195: the normalize loop, then the direct render enqueue when
\* nothing needed normalizing.  Each turn of the loop sets the segment to
\* normalizing, inserts its processing_jobs row, and only then returns an
\* error when the segment has no original_storage_key (lines 137-139).
PostEnqueue ==
  /\ req.pc = "enqueue"
  /\ LET all == OrderSegs(ToNormalize)
         stop == MissingFile(all)
         todo == IF stop = 0 THEN all ELSE SubSeq(all, 1, stop)
         queued == IF stop = 0 THEN all ELSE SubSeq(all, 1, stop - 1)
         direct == IF ToNormalize = {} THEN DirectTargets ELSE <<>>
     IN /\ seg' = [s \in DOMAIN seg |->
                     IF \E k \in 1..Len(todo) : todo[k] = s
                       THEN [seg[s] EXCEPT !.status = "normalizing"]
                       ELSE seg[s]]
        /\ rows' = rows
                   \o [i \in 1..Len(todo) |-> NewJobRow("normalize", todo[i])]
                   \o [i \in 1..Len(direct) |-> NewJobRow("render", direct[i])]
        /\ normQ' = EnqueueNormalizeAll(normQ, queued)
        /\ renderQ' = EnqueueRenderAll(renderQ, direct)
        /\ req' = [req EXCEPT
                     !.pc = "idle", !.snap = <<>>,
                     !.resp = IF stop = 0 THEN Success
                              ELSE errorResponse("Segment is missing its uploaded file")]
  /\ UNCHANGED <<project, variants, gen, blob, used, call>>

----------------------------------------------------------------------------
(* checkAndEnqueueRenders *)

AllNormalized == \A s \in DOMAIN seg : seg[s].status = "normalized"

\* a check that leaves its loop after the first pending variant
FirstTargetOnly ==
  LET pending == OrderVariants({v \in DOMAIN variants :
                                  variants[v].status = "pending"})
  IN IF AllNormalized /\ pending # <<>> THEN <<Head(pending)>> ELSE <<>>

\* the variants the check enqueues a render job for
RenderTargets ==
  IF AllNormalized
    THEN OrderVariants({v \in DOMAIN variants :
            /\ variants[v].status = "pending"
            /\ \A s \in {HookOf(v), BodyOf(v), CtaOf(v)} :
                 s \in DOMAIN seg /\ seg[s].nkey})
    ELSE <<>>

RECURSIVE AddRenderAll(_, _)
AddRenderAll(q, sq) ==
  IF sq = <<>> THEN q
  ELSE AddRenderAll(addRender(q, Head(sq)), Tail(sq))

----------------------------------------------------------------------------
(* processNormalize, one execution of the job of segment s *)

AtNormalize(s, pc) ==
  s \in DOMAIN normQ /\ normQ[s].state = "active" /\ normQ[s].pc = pc

\* the worker takes the job; lines 829-842: mkdir(workDir), processing_jobs
\* row -> active
NormalizeStart(s) ==
  /\ s \in DOMAIN normQ
  /\ normQ[s].state = "waiting"
  /\ Cardinality(ActiveNormalize) < NormalizeConcurrency
  /\ normQ' = [normQ EXCEPT ![s].state = "active", ![s].pc = "work",
                            ![s].dir = TRUE,
                            ![s].err = NoErr,
                            ![s].ran = "-",
                            ![s].reported = ReportAtStart,
                            ![s].wrote = FALSE]
  /\ rows' = StartJobRows(rows, "normalize", s)
  /\ UNCHANGED <<project, seg, variants, gen, blob, renderQ, req, used, call>>

\* lines 844-914: download the original, probe it, read the project's
\* target spec (its target_* columns are at their defaults), re-encode or
\* remux as needsNormalization says, upload the result to the normalized
\* key.  The download throws when the original is gone.
NormalizeWork(s) ==
  /\ AtNormalize(s, "work")
  /\ IF originalSegmentKey(s) \in blob /\ normQ[s].dir
       THEN /\ blob' = blob \cup {normalizedSegmentKey(s)}
            /\ normQ' = [normQ EXCEPT
                           ![s].pc = "update",
                           ![s].ran = Transcode(needsNormalization(Probed[s],
                                                                   DEFAULT_SPEC)),
                           ![s].reported = @ \o NormalizeWorkReports]
       ELSE /\ blob' = blob
            /\ normQ' = [normQ EXCEPT
                           ![s].pc = "catch",
                           ![s].err = IF originalSegmentKey(s) \in blob
                                        THEN "ENOENT" ELSE "NoSuchKey"]
  /\ UNCHANGED <<project, seg, variants, gen, rows, renderQ, req, used, call>>

\* lines 916-925: the segment becomes normalized (error_message untouched)
NormalizeUpdate(s) ==
  /\ AtNormalize(s, "update")
  /\ seg' = [seg EXCEPT ![s].status = "normalized", ![s].nkey = TRUE,
                        ![s].ndur = ProbedDuration[s]]
  /\ normQ' = [normQ EXCEPT ![s].pc = "complete", ![s].wrote = TRUE]
  /\ UNCHANGED <<project, variants, gen, rows, blob, renderQ, req, used, call>>

\* lines 927-946: processing_jobs row -> completed, updateProgress(95),
\* the original is deleted
NormalizeComplete(s) ==
  /\ AtNormalize(s, "complete")
  /\ rows' = UpdateJobRows(rows, "normalize", s, "completed", NoErr, TRUE)
  /\ blob' = blob \ {originalSegmentKey(s)}
  /\ normQ' = [normQ EXCEPT ![s].pc = "check",
                            ![s].reported = @ \o NormalizeCompleteReports]
  /\ UNCHANGED <<project, seg, variants, gen, renderQ, req, used, call>>

\* lines 948-958: updateProgress(100), checkAndEnqueueRenders, then the
\* handler returns
NormalizeCheck(s) ==
  /\ AtNormalize(s, "check")
  /\ LET targets == RenderTargets
     IN /\ rows' = rows
                   \o [i \in 1..Len(targets) |-> NewJobRow("render", targets[i])]
        /\ renderQ' = AddRenderAll(renderQ, targets)
  /\ normQ' = [normQ EXCEPT
                 ![s] = MoveToCompleted(RemoveWorkDir(
                          [@ EXCEPT !.reported = @ \o ReportAtEnd]))]
  /\ UNCHANGED <<project, seg, variants, gen, blob, req, used, call>>

----------------------------------------------------------------------------
(* processRender, one execution of render job i *)

AtRender(i, pc) ==
  i \in 1..Len(renderQ) /\ renderQ[i].state = "active" /\ renderQ[i].pc = pc

\* the worker takes the job; lines 1071-1089: mkdir(workDir), variant ->
\* rendering, row -> active
RenderStart(i) ==
  /\ i \in 1..Len(renderQ)
  /\ renderQ[i].state = "waiting"
  /\ Cardinality(ActiveRender) < RenderConcurrency
  /\ renderQ' = [renderQ EXCEPT ![i].state = "active", ![i].pc = "work",
                                ![i].dir = TRUE,
                                ![i].err = NoErr, ![i].saw = FALSE,
                                ![i].reported = ReportAtStart,
                                ![i].wrote = FALSE]
  /\ variants' = UpdateVariant(variants, renderQ[i].vid, "rendering", NoErr)
  /\ rows' = StartJobRows(rows, "render", renderQ[i].vid)
  /\ UNCHANGED <<project, seg, gen, blob, normQ, req, used, call>>

\* lines 1091-1139: download the three normalized files, stitch, extract,
\* upload video, hook clip and poster
RenderWork(i) ==
  /\ AtRender(i, "work")
  /\ LET v == renderQ[i].vid
         inputs == {normalizedSegmentKey(s) : s \in {HookOf(v), BodyOf(v), CtaOf(v)}}
     IN IF inputs \subseteq blob
          THEN /\ blob' = blob \cup {variantVideoKey(v), variantHookClipKey(v),
                                     variantPosterKey(v)}
               /\ renderQ' = [renderQ EXCEPT
                                ![i].pc = "update",
                                ![i].reported = @ \o RenderWorkReports]
          ELSE /\ blob' = blob
               /\ renderQ' = [renderQ EXCEPT ![i].pc = "catch",
                                             ![i].err = "NoSuchKey"]
  /\ UNCHANGED <<project, seg, variants, gen, rows, normQ, req, used, call>>

\* lines 1141-1154: the variant becomes rendered
RenderUpdate(i) ==
  /\ AtRender(i, "update")
  /\ variants' = SetHookEnd(UpdateVariant(variants, renderQ[i].vid,
                                          "rendered", NoErr),
                            renderQ[i].vid, renderQ[i].hookDurationMs)
  /\ renderQ' = [renderQ EXCEPT ![i].pc = "check", ![i].wrote = TRUE]
  /\ UNCHANGED <<project, seg, gen, rows, blob, normQ, req, used, call>>

\* checkProjectComplete, line 1222
AllRendered == \A v \in DOMAIN variants : variants[v].status = "rendered"

\* lines 1156-1222: row -> completed, updateProgress(100), then
\* checkProjectComplete reads the project's variants
RenderCheck(i) ==
  /\ AtRender(i, "check")
  /\ rows' = UpdateJobRows(rows, "render", renderQ[i].vid, "completed", NoErr, TRUE)
  /\ renderQ' = [renderQ EXCEPT ![i].pc = "ready", ![i].saw = AllRendered,
                                ![i].reported = @ \o ReportAtEnd]
  /\ UNCHANGED <<project, seg, variants, gen, blob, normQ, req, used, call>>

\* lines 1223-1229: the project is set ready when the read saw every variant
\* rendered; then the handler returns
RenderFinish(i) ==
  /\ AtRender(i, "ready")
  /\ project' = IF renderQ[i].saw THEN "ready" ELSE project
  /\ renderQ' = [renderQ EXCEPT ![i] = MoveToCompleted(RemoveWorkDir(@))]
  /\ UNCHANGED <<seg, variants, gen, rows, blob, normQ, req, used, call>>

----------------------------------------------------------------------------
(* Failures: a step of a handler throws; the catch block; the re-raise *)

Spend(what) == [used EXCEPT ![what] = @ + 1]

\* probeVideo / normalizeVideo / uploadToR2 throws (lines 852-913)
NormalizeFail(s) ==
  /\ AtNormalize(s, "work")
  /\ used.fails < MaxFails
  /\ normQ' = [normQ EXCEPT ![s].pc = "catch", ![s].err = "EncodeError"]
  /\ used' = Spend("fails")
  /\ UNCHANGED <<project, seg, variants, gen, rows, blob, renderQ, req, call>>

\* job.updateProgress(100) throws (line 948): the segment is already
\* normalized, its row completed and the original deleted
NormalizeLateFail(s) ==
  /\ AtNormalize(s, "check")
  /\ used.fails < MaxFails
  /\ normQ' = [normQ EXCEPT ![s].pc = "catch", ![s].err = "QueueError"]
  /\ used' = Spend("fails")
  /\ UNCHANGED <<project, seg, variants, gen, rows, blob, renderQ, req, call>>

\* a catch block that re-raises without touching the segment
NormalizeCatchRethrowOnly(s) ==
  /\ AtNormalize(s, "catch")
  /\ normQ' = [normQ EXCEPT ![s].pc = "rethrow"]
  /\ UNCHANGED <<project, seg, variants, gen, rows, blob, renderQ, req, used, call>>

\* lines 966-972: the segment is marked failed with the error's message
NormalizeCatch(s) ==
  /\ AtNormalize(s, "catch")
  /\ seg' = [seg EXCEPT ![s].status = "failed", ![s].err = normQ[s].err]
  /\ normQ' = [normQ EXCEPT ![s].pc = "rethrow"]
  /\ UNCHANGED <<project, variants, gen, rows, blob, renderQ, req, used, call>>

\* lines 974-984: the row is marked failed, the error is re-raised and the
\* queue retries or gives up
NormalizeThrow(s) ==
  /\ AtNormalize(s, "rethrow")
  /\ rows' = UpdateJobRows(rows, "normalize", s, "failed", normQ[s].err, TRUE)
  /\ normQ' = [normQ EXCEPT ![s] = MoveToFailed(RemoveWorkDir(@))]
  /\ UNCHANGED <<project, seg, variants, gen, blob, renderQ, req, used, call>>

\* stitchSegments / extractHookClip / uploadToR2 throws (lines 1097-1138)
RenderFail(i) ==
  /\ AtRender(i, "work")
  /\ used.fails < MaxFails
  /\ renderQ' = [renderQ EXCEPT ![i].pc = "catch", ![i].err = "ConcatError"]
  /\ used' = Spend("fails")
  /\ UNCHANGED <<project, seg, variants, gen, rows, blob, normQ, req, call>>

\* job.updateProgress(100) throws (line 1167): the variant is already
\* rendered and its row completed
RenderLateFail(i) ==
  /\ AtRender(i, "check")
  /\ used.fails < MaxFails
  /\ rows' = UpdateJobRows(rows, "render", renderQ[i].vid, "completed", NoErr, TRUE)
  /\ renderQ' = [renderQ EXCEPT ![i].pc = "catch", ![i].err = "QueueError"]
  /\ used' = Spend("fails")
  /\ UNCHANGED <<project, seg, variants, gen, blob, normQ, req, call>>

\* lines 1185-1191: the variant is marked failed with the error's message
RenderCatch(i) ==
  /\ AtRender(i, "catch")
  /\ variants' = UpdateVariant(variants, renderQ[i].vid, "failed", renderQ[i].err)
  /\ renderQ' = [renderQ EXCEPT ![i].pc = "rethrow"]
  /\ UNCHANGED <<project, seg, gen, rows, blob, normQ, req, used, call>>

\* lines 1193-1203: the row is marked failed, the error is re-raised
RenderThrow(i) ==
  /\ AtRender(i, "rethrow")
  /\ rows' = UpdateJobRows(rows, "render", renderQ[i].vid, "failed",
                           renderQ[i].err, TRUE)
  /\ renderQ' = [renderQ EXCEPT ![i] = MoveToFailed(RemoveWorkDir(@))]
  /\ UNCHANGED <<project, seg, variants, gen, blob, normQ, req, used, call>>

----------------------------------------------------------------------------
(* A worker dies in the middle of a job: nothing of the handler runs any   *)
(* more (no catch, no finally); when the lock (lockDuration) expires the   *)
(* queue hands the job out again.                                          *)

Redeliver(j) == [j EXCEPT !.state = "waiting", !.pc = "-"]

NormalizeCrash(s) ==
  /\ s \in DOMAIN normQ
  /\ normQ[s].state = "active"
  /\ used.crashes < MaxCrashes
  /\ normQ' = [normQ EXCEPT ![s] = Redeliver(@)]
  /\ used' = Spend("crashes")
  /\ UNCHANGED <<project, seg, variants, gen, rows, blob, renderQ, req, call>>

RenderCrash(i) ==
  /\ i \in 1..Len(renderQ)
  /\ renderQ[i].state = "active"
  /\ used.crashes < MaxCrashes
  /\ renderQ' = [renderQ EXCEPT ![i] = Redeliver(@)]
  /\ used' = Spend("crashes")
  /\ UNCHANGED <<project, seg, variants, gen, rows, blob, normQ, req, call>>

----------------------------------------------------------------------------
(* A job stalls: its lock (lockDuration) expires while the handler is      *)
(* still running, the queue hands the job out again, and the two           *)
(* executions of processNormalize run side by side.  Both compute workDir  *)
(* from job.id, so they share the directory wai-normalize-{job.id}.        *)

NormalizeStall(s) ==
  /\ s \in DOMAIN normQ
  /\ normQ[s].state = "active"
  /\ normQ[s].pc \in {"work", "update", "complete", "check"}
  /\ normQ[s].old = "-"
  /\ used.stalls < MaxStalls
  /\ normQ' = [normQ EXCEPT ![s] = [Redeliver(@) EXCEPT !.old = normQ[s].pc]]
  /\ used' = Spend("stalls")
  /\ UNCHANGED <<project, seg, variants, gen, rows, blob, renderQ, req, call>>

AtOld(s, pc) == s \in DOMAIN normQ /\ normQ[s].old = pc

\* lines 844-914 in the earlier execution
OldNormalizeWork(s) ==
  /\ AtOld(s, "work")
  /\ IF originalSegmentKey(s) \in blob /\ normQ[s].dir
       THEN /\ blob' = blob \cup {normalizedSegmentKey(s)}
            /\ normQ' = [normQ EXCEPT ![s].old = "update"]
       ELSE /\ blob' = blob
            /\ normQ' = [normQ EXCEPT ![s].old = "catch"]
  /\ UNCHANGED <<project, seg, variants, gen, rows, renderQ, req, used, call>>

\* lines 916-925 in the earlier execution
OldNormalizeUpdate(s) ==
  /\ AtOld(s, "update")
  /\ seg' = [seg EXCEPT ![s].status = "normalized", ![s].nkey = TRUE,
                        ![s].ndur = ProbedDuration[s]]
  /\ normQ' = [normQ EXCEPT ![s].old = "complete"]
  /\ UNCHANGED <<project, variants, gen, rows, blob, renderQ, req, used, call>>

\* lines 927-946 in the earlier execution
OldNormalizeComplete(s) ==
  /\ AtOld(s, "complete")
  /\ rows' = UpdateJobRows(rows, "normalize", s, "completed", NoErr, TRUE)
  /\ blob' = blob \ {originalSegmentKey(s)}
  /\ normQ' = [normQ EXCEPT ![s].old = "check"]
  /\ UNCHANGED <<project, seg, variants, gen, renderQ, req, used, call>>

\* lines 948-958 and the finally of line 986 in the earlier execution: the
\* shared directory is removed; the queue refuses the result of an
\* execution that no longer holds the lock, so the job itself is untouched
OldNormalizeCheck(s) ==
  /\ AtOld(s, "check")
  /\ LET targets == RenderTargets
     IN /\ rows' = rows
                   \o [i \in 1..Len(targets) |-> NewJobRow("render", targets[i])]
        /\ renderQ' = AddRenderAll(renderQ, targets)
  /\ normQ' = [normQ EXCEPT ![s] = [RemoveWorkDir(@) EXCEPT !.old = "-"]]
  /\ UNCHANGED <<project, seg, variants, gen, blob, req, used, call>>

\* lines 966-972 in the earlier execution
OldNormalizeCatch(s) ==
  /\ AtOld(s, "catch")
  /\ seg' = [seg EXCEPT ![s].status = "failed", ![s].err = "NoSuchKey"]
  /\ normQ' = [normQ EXCEPT ![s].old = "rethrow"]
  /\ UNCHANGED <<project, variants, gen, rows, blob, renderQ, req, used, call>>

\* lines 974-986 in the earlier execution
OldNormalizeThrow(s) ==
  /\ AtOld(s, "rethrow")
  /\ rows' = UpdateJobRows(rows, "normalize", s, "failed", "NoSuchKey", TRUE)
  /\ normQ' = [normQ EXCEPT ![s] = [RemoveWorkDir(@) EXCEPT !.old = "-"]]
  /\ UNCHANGED <<project, seg, variants, gen, blob, renderQ, req, used, call>>

----------------------------------------------------------------------------
(* RetryButton.handleRetry: the dashboard's "Reset & Retry", shown while a *)
(* segment or a variant is failed.  Its POST to the process route is the   *)
(* PostStart that follows.                                                 *)

HasFailures ==
  \/ \E s \in DOMAIN seg : seg[s].status = "failed"
  \/ \E v \in DOMAIN variants : variants[v].status = "failed"

\* a reset that sets every segment to uploaded
ResetEverySegment(r) == [r EXCEPT !.status = "uploaded", !.err = NoErr]

ResetSegment(r) ==
  IF r.status \in {"failed", "normalizing"}
    THEN [r EXCEPT !.status = "uploaded", !.err = NoErr]
    ELSE r

Reset ==
  /\ HasFailures
  /\ req.pc = "idle"
  /\ used.resets < MaxResets
  /\ seg' = [s \in DOMAIN seg |-> ResetSegment(seg[s])]
  /\ variants' = <<>>
  /\ rows' = <<>>
  /\ project' = "draft"
  /\ used' = Spend("resets")
  /\ UNCHANGED <<gen, blob, normQ, renderQ, req, call>>

\* The reset script (flush-queues.ts:43-89): failed and normalizing segments
\* go back to uploaded; a project that is processing goes back to draft and
\* its variants and processing_jobs rows are deleted.  It asks for no
\* failure and can run while a request is in flight.
ResetScript ==
  /\ used.resets < MaxResets
  /\ seg' = [s \in DOMAIN seg |-> ResetSegment(seg[s])]
  /\ IF project = "processing"
       THEN /\ project' = "draft"
            /\ variants' = <<>>
            /\ rows' = <<>>
       ELSE UNCHANGED <<project, variants, rows>>
  /\ used' = Spend("resets")
  /\ UNCHANGED <<gen, blob, normQ, renderQ, req, call>>

----------------------------------------------------------------------------
(* A caller enqueues again for a target whose job is waiting or active     *)

\* enqueueNormalize({segmentId: s, ...}) once more
EnqueueNormalizeAgain(s) ==
  /\ s \in DOMAIN normQ
  /\ normQ[s].state \in {"waiting", "active"}
  /\ used.againN < MaxAgain
  /\ normQ' = enqueueNormalize(normQ, s)
  /\ used' = Spend("againN")
  /\ UNCHANGED <<project, seg, variants, gen, rows, blob, renderQ, req, call>>

\* enqueueRender({variantId: v, ...}) once more, v the target of job i
EnqueueRenderAgain(i) ==
  /\ i \in 1..Len(renderQ)
  /\ renderQ[i].keyed
  /\ renderQ[i].state \in {"waiting", "active"}
  /\ used.againR < MaxAgain
  /\ renderQ' = enqueueRender(renderQ, renderQ[i].vid)
  /\ used' = Spend("againR")
  /\ UNCHANGED <<project, seg, variants, gen, rows, blob, normQ, req, call>>

----------------------------------------------------------------------------
(* Specifications *)

RenderSlots == 1..MaxRenderJobs

Pipeline ==
  \/ \E s \in AllSegs : CompleteUpload(s)
  \/ PostStart
  \/ PostEnqueue
  \/ \E s \in AllSegs : NormalizeStart(s)
  \/ \E s \in AllSegs : NormalizeWork(s)
  \/ \E s \in AllSegs : NormalizeUpdate(s)
  \/ \E s \in AllSegs : NormalizeComplete(s)
  \/ \E s \in AllSegs : NormalizeCheck(s)
  \/ \E i \in RenderSlots : RenderStart(i)
  \/ \E i \in RenderSlots : RenderWork(i)
  \/ \E i \in RenderSlots : RenderUpdate(i)
  \/ \E i \in RenderSlots : RenderCheck(i)
  \/ \E i \in RenderSlots : RenderFinish(i)

Catches ==
  \/ \E s \in AllSegs : NormalizeCatch(s)
  \/ \E s \in AllSegs : NormalizeThrow(s)

RenderCatches ==
  \/ \E i \in RenderSlots : RenderCatch(i)
  \/ \E i \in RenderSlots : RenderThrow(i)

Failures ==
  \/ \E s \in AllSegs : NormalizeFail(s)
  \/ \E s \in AllSegs : NormalizeLateFail(s)
  \/ \E i \in RenderSlots : RenderFail(i)
  \/ \E i \in RenderSlots : RenderLateFail(i)

Crashes ==
  \/ \E s \in AllSegs : NormalizeCrash(s)
  \/ \E i \in RenderSlots : RenderCrash(i)

\* every slot of the render queue is within RenderSlots
QueueFits == Len(renderQ) <= MaxRenderJobs

Init == InitWith(AllSegs)
Next == Pipeline
Spec == Init /\ [][Next]_vars

NextFail == Pipeline \/ Failures \/ Catches \/ RenderCatches
InitCore == InitWith(CoreSegs)
SpecFail == InitCore /\ [][NextFail]_vars

NextCrash == Pipeline \/ Crashes \/ Catches
SpecCrash == InitCore /\ [][NextCrash]_vars

NextRetry ==
  \/ Pipeline
  \/ \E s \in AllSegs : NormalizeFail(s)
  \/ Catches
SpecRetry == InitCore /\ [][NextRetry]_vars

NextReset ==
  \/ Pipeline
  \/ \E s \in AllSegs : NormalizeFail(s)
  \/ Catches
  \/ Reset
SpecReset == InitCore /\ [][NextReset]_vars

NextManualReset ==
  \/ Pipeline
  \/ \E s \in AllSegs : NormalizeFail(s)
  \/ Catches
  \/ Reset
  \/ ResetScript
SpecManualReset == InitCore /\ [][NextManualReset]_vars

NextValidate == Pipeline \/ PostReject
SpecValidate == Init /\ [][NextValidate]_vars

NextConcurrent == Pipeline \/ SecondRead \/ SecondInsert
SpecConcurrent == Init /\ [][NextConcurrent]_vars

NextPatch ==
  \/ Pipeline
  \/ \E s \in AllSegs, ty \in {"hook", "body", "cta"} : PatchType(s, ty)
SpecPatch == InitCore /\ [][NextPatch]_vars

NextStale ==
  \/ Pipeline
  \/ \E i \in RenderSlots : RenderFail(i)
  \/ RenderCatches
  \/ Reset
SpecStale == InitCore /\ [][NextStale]_vars

NextEnqueue ==
  \/ Pipeline
  \/ \E i \in RenderSlots : RenderFail(i)
  \/ RenderCatches
  \/ Reset
  \/ \E s \in AllSegs : EnqueueNormalizeAgain(s)
  \/ \E i \in RenderSlots : EnqueueRenderAgain(i)
SpecEnqueue == InitCore /\ [][NextEnqueue]_vars

Stalls ==
  \/ \E s \in AllSegs : NormalizeStall(s)
  \/ \E s \in AllSegs : OldNormalizeWork(s)
  \/ \E s \in AllSegs : OldNormalizeUpdate(s)
  \/ \E s \in AllSegs : OldNormalizeComplete(s)
  \/ \E s \in AllSegs : OldNormalizeCheck(s)
  \/ \E s \in AllSegs : OldNormalizeCatch(s)
  \/ \E s \in AllSegs : OldNormalizeThrow(s)

NextStall == Pipeline \/ Stalls \/ Catches
SpecStall == InitCore /\ [][NextStall]_vars

NextMissing ==
  \/ Pipeline
  \/ PostReject
  \/ \E s \in AllSegs : PatchOriginalKey(s)
SpecMissing == InitCore /\ [][NextMissing]_vars

----------------------------------------------------------------------------
(* Library functions called on their own *)

\* no project exists: the tables, the bucket and the queues are empty
NoProject ==
  /\ project = "draft"
  /\ seg = <<>>
  /\ variants = <<>>
  /\ gen = 0
  /\ rows = <<>>
  /\ blob = {}
  /\ normQ = <<>>
  /\ renderQ = <<>>
  /\ req = [pc |-> "idle", snap |-> <<>>, resp |-> NoResponse,
            second |-> SecondIdle(NoResponse)]
  /\ used = [fails |-> 0, crashes |-> 0, resets |-> 0,
             againN |-> 0, againR |-> 0, patches |-> 0, stalls |-> 0]

----------------------------------------------------------------------------
(* needsNormalization called on its own *)

\* VideoMetadata as probeVideo returns it (duration and size play no part)
Metadata ==
  [width : {1920, 1280}, height : {1080, 720}, fps : {2997, 3000, 3051, 6000},
   video_codec : {"h264", "hevc", "libx264"},
   audio_codec : {"aac", "opus", "null"},
   audio_sample_rate : {44100, 48000, Null},
   audio_channels : {2, 1, Null},
   has_audio : BOOLEAN]

InitMatch ==
  /\ NoProject
  /\ \E m \in Metadata, s \in Specs :
       call = [fn |-> "needsNormalization", metadata |-> m, spec |-> s,
               done |-> FALSE, returned |-> [needed |-> FALSE, reasons |-> <<>>]]

\* needsNormalization(metadata, spec)
Match ==
  /\ call.fn = "needsNormalization"
  /\ ~call.done
  /\ call' = [call EXCEPT !.done = TRUE,
                          !.returned = needsNormalization(call.metadata, call.spec)]
  /\ UNCHANGED pipeline

NextMatch == Match
SpecMatch == InitMatch /\ [][NextMatch]_vars

----------------------------------------------------------------------------
(* generateCombinations called on its own, on every list of segments of    *)
(* distinct ids, and again on a re-ordering of that list                   *)

\* the segments a list is made of, as the pipeline's project has four
SegmentIds == {"s1", "s2", "s3", "s4"}

\* n distinct ids, in every order
IdLists(n) ==
  {f \in [1..n -> SegmentIds] : \A i, j \in 1..n : i # j => f[i] # f[j]}

NotReturned == [thrown |-> FALSE, combinations |-> <<>>]

\* interface Segment (the label plays no part): the input is a list of
\* segments of distinct ids, of every type and sort_order up to MaxSortOrder
InitCombine ==
  /\ NoProject
  /\ \E n \in 0..Cardinality(SegmentIds) :
       \E ids \in IdLists(n), ty \in [1..n -> {"hook", "body", "cta"}],
          so \in [1..n -> 0..MaxSortOrder] :
         call = [fn |-> "generateCombinations",
                 segments |-> [i \in 1..n |-> [id |-> ids[i], type |-> ty[i],
                                                sort_order |-> so[i]]],
                 done |-> FALSE,
                 returned |-> NotReturned]

\* generateCombinations(segments)
Combine ==
  /\ call.fn = "generateCombinations"
  /\ ~call.done
  /\ call' = [call EXCEPT !.done = TRUE,
                          !.returned = generateCombinations(call.segments)]
  /\ UNCHANGED pipeline

\* generateCombinations on the same segments in another order
Recombine ==
  /\ call.fn = "generateCombinations"
  /\ call.done
  /\ \E p \in Permutations(1..Len(call.segments)) :
       LET reordered == [i \in 1..Len(call.segments) |-> call.segments[p[i]]]
       IN call' = [call EXCEPT !.segments = reordered,
                               !.returned = generateCombinations(reordered)]
  /\ UNCHANGED pipeline

NextCombine == Combine \/ Recombine
SpecCombine == InitCombine /\ [][NextCombine]_vars

----------------------------------------------------------------------------
(* assignVariant.  A JavaScript number that holds an integer n is kept as  *)
(* the record [hi, lo] with n = hi * 2^16 + lo and lo in 0 .. 2^16 - 1, so *)
(* that the 32-bit hash and the wider intermediate values are computed     *)
(* exactly.  A string is the sequence of its UTF-16 code units.            *)

Radix == 65536
HalfRadix == 32768

Num(hi, lo) == [hi |-> hi + (lo \div Radix), lo |-> lo % Radix]
FromInt(n) == Num(0, n)
Plus(a, b) == Num(a.hi + b.hi, a.lo + b.lo)
Minus(a, b) == Num(a.hi - b.hi, a.lo - b.lo)
Times(a, k) == Num(a.hi * k, a.lo * k)

\* ToInt32 of ECMAScript, applied by `x | 0` and to the operand of `x << n`:
\* the value modulo 2^32, read as a signed 32-bit integer
ToInt32(a) == [hi |-> ((a.hi + HalfRadix) % Radix) - HalfRadix, lo |-> a.lo]

\* hash << 4
ShiftLeft4(a) == ToInt32(Times(ToInt32(a), 16))

\* hash << 5: the result of a shift is a signed 32-bit integer
ShiftLeft5(a) == ToInt32(Times(ToInt32(a), 32))

\* the value left as it is
NoAbs(a) == a

\* Math.abs on a number (a double: the absolute value of -2^31 is 2^31)
MathAbs(a) == IF a.hi < 0 THEN Minus(FromInt(0), a) ELSE a

\* a % n of JavaScript for an integer n > 0: the result has the sign of a
Remainder(a, n) ==
  LET m == IF a.hi < 0 THEN Minus(FromInt(0), a) ELSE a
      r == ((m.hi % n) * (Radix % n) + m.lo) % n
  IN IF a.hi < 0 THEN 0 - r ELSE r

\* the signed 32-bit integers
IsInt32(a) == a.hi >= 0 - HalfRadix /\ a.hi < HalfRadix /\ a.lo >= 0 /\ a.lo < Radix

\* lines 59-64: the loop over input.charCodeAt(i), i counted from 1.  The
\* hash is a signed 32-bit integer after every round.
RECURSIVE hashLoop(_, _, _)
hashLoop(hash, input, i) ==
  IF i > Len(input) \/ ~IsInt32(hash) THEN hash
  ELSE hashLoop(ToInt32(Plus(Minus(ShiftLeft5(hash), hash), FromInt(input[i]))),
                input, i + 1)

hashOf(input) == hashLoop(FromInt(0), input, 1)

\* ":"
Colon == 58

assignVariant(viewerId, projectId, variantCount) ==
  IF variantCount <= 0 THEN 0
  ELSE Remainder(MathAbs(hashOf(viewerId \o <<Colon>> \o projectId)),
                 variantCount)

\* projects.id, a uuid: "3f2c1a9e-5b7d-4c60-9e21-7a4d0b8c6f15" and
\* "00000000-0000-4000-8000-000000000001"
ProjectIds ==
  {<<51, 102, 50, 99, 49, 97, 57, 101, 45, 53, 98, 55, 100, 45, 52, 99, 54,
     48, 45, 57, 101, 50, 49, 45, 55, 97, 52, 100, 48, 98, 56, 99, 54, 102,
     49, 53>>,
   <<48, 48, 48, 48, 48, 48, 48, 48, 45, 48, 48, 48, 48, 45, 52, 48, 48, 48,
     45, 56, 48, 48, 48, 45, 48, 48, 48, 48, 48, 48, 48, 48, 48, 48, 48, 49>>}

\* values of the wai_vid cookie: "wai_qbhcxrmiueevrlnz" and
\* "wai_k3j9x0q2m5n8p1r7" (the form generateViewerId gives), "a", the empty
\* string and a string of two code units above 2^15
ViewerIds ==
  {<<119, 97, 105, 95, 113, 98, 104, 99, 120, 114, 109, 105, 117, 101, 101,
     118, 114, 108, 110, 122>>,
   <<119, 97, 105, 95, 107, 51, 106, 57, 120, 48, 113, 50, 109, 53, 110, 56,
     112, 49, 114, 55>>,
   <<97>>,
   <<>>,
   <<55357, 56832>>}

NotCalled == 0 - 1

InitAssign ==
  /\ NoProject
  /\ \E v \in ViewerIds, p \in ProjectIds, n \in 0..MaxCount :
       call = [fn |-> "assignVariant", viewerId |-> v, projectId |-> p,
               variantCount |-> n, first |-> NotCalled, again |-> NotCalled]

\* assignVariant(viewerId, projectId, variantCount)
Assign ==
  /\ call.fn = "assignVariant"
  /\ call.first = NotCalled
  /\ call' = [call EXCEPT !.first = assignVariant(call.viewerId, call.projectId,
                                                  call.variantCount)]
  /\ UNCHANGED pipeline

\* the same call once more
AssignAgain ==
  /\ call.fn = "assignVariant"
  /\ call.first # NotCalled
  /\ call' = [call EXCEPT !.again = assignVariant(call.viewerId, call.projectId,
                                                  call.variantCount)]
  /\ UNCHANGED pipeline

NextAssign == Assign \/ AssignAgain
SpecAssign == InitAssign /\ [][NextAssign]_vars

----------------------------------------------------------------------------
(* GET /api/embed/[slug] and the embed page /e/[slug]: the project is read *)
(* by slug, then its rendered variants, then a variant is assigned.  The   *)
(* two reads are separate calls of the store.                              *)

\* projects.slug and projects.id of the project of the pipeline
ProjectSlug == "demo"
ProjectId ==
  <<51, 102, 50, 99, 49, 97, 57, 101, 45, 53, 98, 55, 100, 45, 52, 99, 54,
    48, 45, 57, 101, 50, 49, 45, 55, 97, 52, 100, 48, 98, 56, 99, 54, 102,
    49, 53>>

\* the slugs requested: the project's and one no project has
Slugs == {ProjectSlug, "nothing"}

\* .order("variant_code"): the codes a project of the inventory can have,
\* each with its place in the text order of h{i}-b{j}-c{k}, which for
\* positions below 10 is the order of (i, j, k)
CodeRanks ==
  LET P == 1..Cardinality(AllSegs)
  IN {<<variantCodeAt(i - 1, j - 1, k - 1), 100 * i + 10 * j + k>> :
        i \in P, j \in P, k \in P}

CodeRank(code) == (CHOOSE p \in CodeRanks : p[1] = code)[2]

\* .eq("project_id", project.id).eq("status", "rendered").order("variant_code")
RECURSIVE OrderByCode(_)
OrderByCode(S) ==
  IF S = {} THEN <<>>
  ELSE LET m == CHOOSE x \in S : \A y \in S :
                  CodeRank(variants[x].code) <= CodeRank(variants[y].code)
       IN <<m>> \o OrderByCode(S \ {m})

RenderedVariants ==
  OrderByCode({v \in DOMAIN variants : variants[v].status = "rendered"})

\* the responses of the route
NotFoundOrNotReady ==
  [status |-> 404, error |-> "Project not found or not ready",
   variantId |-> <<>>, variantCode |-> "-"]
NoRenderedVariants ==
  [status |-> 404, error |-> "No rendered variants",
   variantId |-> <<>>, variantCode |-> "-"]
Assigned(v) ==
  [status |-> 200, error |-> "-", variantId |-> v,
   variantCode |-> variants[v].code]

\* lines 41-53 with any status of the project accepted
EmbedProjectAnyStatus(slug, viewerId) ==
  /\ call.fn \in {"-", "embed"}
  /\ call.fn = "embed" => call.pc = "done"
  /\ call' = IF slug = ProjectSlug
               THEN [fn |-> "embed", slug |-> slug, viewerId |-> viewerId,
                     pc |-> "variants", assigned |-> NotCalled,
                     response |-> NotFoundOrNotReady]
               ELSE [fn |-> "embed", slug |-> slug, viewerId |-> viewerId,
                     pc |-> "done", assigned |-> NotCalled,
                     response |-> NotFoundOrNotReady]
  /\ UNCHANGED pipeline

\* lines 38-53: a new request reads the project by slug; no row, or a row
\* whose status is not ready, ends the request with 404
EmbedProject(slug, viewerId) ==
  /\ call.fn \in {"-", "embed"}
  /\ call.fn = "embed" => call.pc = "done"
  /\ call' = IF slug = ProjectSlug /\ project = "ready"
               THEN [fn |-> "embed", slug |-> slug, viewerId |-> viewerId,
                     pc |-> "variants", assigned |-> NotCalled,
                     response |-> NotFoundOrNotReady]
               ELSE [fn |-> "embed", slug |-> slug, viewerId |-> viewerId,
                     pc |-> "done", assigned |-> NotCalled,
                     response |-> NotFoundOrNotReady]
  /\ UNCHANGED pipeline

\* lines 55-90: the rendered variants are read in the order of variant_code;
\* none ends the request with 404, otherwise the variant at the index
\* assignVariant gives is returned
EmbedVariants ==
  /\ call.fn = "embed"
  /\ call.pc = "variants"
  /\ LET found == RenderedVariants
     IN IF Len(found) = 0
          THEN call' = [call EXCEPT !.pc = "done",
                                    !.response = NoRenderedVariants]
          ELSE LET variantIndex == assignVariant(call.viewerId, ProjectId,
                                                 Len(found))
               IN call' = [call EXCEPT !.pc = "done",
                                       !.assigned = variantIndex,
                                       !.response = Assigned(found[variantIndex + 1])]
  /\ UNCHANGED pipeline

NextEmbed ==
  \/ Pipeline
  \/ \E slug \in Slugs, viewerId \in ViewerIds : EmbedProject(slug, viewerId)
  \/ EmbedVariants
SpecEmbed == Init /\ [][NextEmbed]_vars

----------------------------------------------------------------------------
(* POST /api/track *)

\* the values a property of a JSON body can have; undefined is a property
\* that is absent
JsonValues ==
  {[type |-> "undefined", value |-> "-"], [type |-> "null", value |-> "-"],
   [type |-> "string", value |-> ""], [type |-> "string", value |-> "play"],
   [type |-> "string", value |-> "complete"],
   [type |-> "number", value |-> "0"], [type |-> "number", value |-> "7"],
   [type |-> "boolean", value |-> "false"],
   [type |-> "object", value |-> "{}"]}

Undefined == [type |-> "undefined", value |-> "-"]

\* ToBoolean of ECMAScript, as `!x` applies it
ToBoolean(v) ==
  /\ v.type \notin {"undefined", "null"}
  /\ ~(v.type = "string" /\ v.value = "")
  /\ ~(v.type = "number" /\ v.value = "0")
  /\ ~(v.type = "boolean" /\ v.value = "false")

\* the request bodies: text that is no JSON, the JSON null, a JSON number,
\* string or array (no event and no variantId to destructure), an object
TrackBodies ==
  {[kind |-> k, event |-> Undefined, variantId |-> Undefined] :
     k \in {"malformed", "null", "number", "string", "array"}}
  \cup {[kind |-> "object", event |-> e, variantId |-> v] :
          e \in JsonValues, v \in JsonValues}

\* the responses: NextResponse.json({ok: true}) and
\* NextResponse.json({error: "Missing fields"}, {status: 400})
TrackOk == [status |-> 200, error |-> "-"]
MissingFields == [status |-> 400, error |-> "Missing fields"]

\* lines 27-46: req.json() rejects on a malformed body and destructuring
\* null throws a TypeError, both caught by the catch block
trackPOST(body) ==
  IF body.kind \in {"malformed", "null"} THEN TrackOk
  ELSE IF ~ToBoolean(body.event) \/ ~ToBoolean(body.variantId)
         THEN MissingFields
         ELSE TrackOk

InitTrack ==
  /\ NoProject
  /\ \E b \in TrackBodies :
       call = [fn |-> "track", body |-> b, done |-> FALSE,
               response |-> NoResponse]

Track ==
  /\ call.fn = "track"
  /\ ~call.done
  /\ call' = [call EXCEPT !.done = TRUE, !.response = trackPOST(call.body)]
  /\ UNCHANGED pipeline

NextTrack == Track
SpecTrack == InitTrack /\ [][NextTrack]_vars

----------------------------------------------------------------------------
(* Properties *)

SegsOf(v) == {HookOf(v), BodyOf(v), CtaOf(v)}
RenderJobsOf(v) == {i \in 1..Len(renderQ) : renderQ[i].vid = v}
Live(j) == j.state \in {"waiting", "active"}

\* nothing is queued or running and no request is in flight
Quiescent ==
  /\ req.pc = "idle"
  /\ \A s \in DOMAIN normQ : ~Live(normQ[s])
  /\ \A i \in 1..Len(renderQ) : ~Live(renderQ[i])

\* C1: a project whose status is ready has every one of its variant rows in
\* status rendered.
C1_ReadyOnlyIfAllRendered ==
  project = "ready" =>
    \A v \in DOMAIN variants : variants[v].status = "rendered"

\* C2: a render job starts executing only while the hook, body and cta
\* segments of its variant all have status normalized, and a render job is
\* never enqueued for a variant one of whose segments is failed.
C2_RenderOnlyAfterNormalized ==
  [][\A i \in RenderSlots :
       /\ (/\ i <= Len(renderQ)
           /\ renderQ[i].state = "waiting"
           /\ renderQ'[i].state = "active")
          => \A s \in SegsOf(renderQ[i].vid) : seg[s].status = "normalized"
       /\ (i > Len(renderQ) /\ i <= Len(renderQ'))
          => \A s \in SegsOf(renderQ'[i].vid) : seg[s].status # "failed"]_vars

\* C3: however the fan-in checks of concurrently completing normalize jobs
\* interleave, a variant never has more than one render job in the render
\* queue (so it is rendered by one execution only).
C3_OneRenderJobPerVariant ==
  \A v \in DOMAIN variants : Cardinality(RenderJobsOf(v)) <= 1

\* C4: when start-processing succeeded and every job execution succeeds, the
\* pipeline does not come to rest before the project is ready: a project that
\* is processing with no request in flight and no job queued or running does
\* not exist.
C4_NeverStuckProcessing ==
  (project = "processing" /\ Quiescent) => FALSE

\* C5: re-running a job from scratch ends as a single successful run does:
\* no segment or variant is left failed by the re-run, and a finished
\* normalize job leaves its segment normalized with its normalized file stored
\* under the normalized key.
C5_RerunSameFinalState ==
  /\ \A s \in DOMAIN seg : seg[s].status # "failed"
  /\ \A v \in DOMAIN variants : variants[v].status # "failed"
  /\ \A s \in DOMAIN normQ :
       normQ[s].state \in {"completed", "failed"}
         => /\ seg[s].status = "normalized"
            /\ seg[s].nkey
            /\ normalizedSegmentKey(s) \in blob

\* C6: the project's status becomes ready only in a step after which every
\* variant of the project is rendered, and once ready it stays ready for the
\* rest of the run (the flip happens exactly once).
C6_ReadyFlipsOnceWhenAllRendered ==
  [][/\ (project # "ready" /\ project' = "ready")
          => \A v \in DOMAIN variants' : variants'[v].status = "rendered"
     /\ (project = "ready") => (project' = "ready")]_vars

\* the processing_jobs rows of a target
RowsOf(rs, ty, t) == {i \in 1..Len(rs) : rs[i].type = ty /\ rs[i].target = t}

RowsFailedWith(rs, ty, t, er) ==
  \A i \in RowsOf(rs, ty, t) :
    rs[i].status = "failed" /\ rs[i].err = er /\ rs[i].done

\* C7, processNormalize: the catch block has marked the segment failed with
\* the error's message by the time the error is re-raised, the re-raise leaves
\* the job's processing_jobs rows failed with the same message and a
\* completion timestamp, and the queue gets a failed attempt, never a
\* completed job.
C7_NormalizeStep ==
  \A s \in DOMAIN normQ :
    /\ (AtNormalize(s, "catch") /\ normQ'[s].pc = "rethrow")
         => (/\ normQ[s].err # NoErr
             /\ seg'[s].status = "failed"
             /\ seg'[s].err = normQ[s].err)
    /\ (AtNormalize(s, "rethrow") /\ normQ'[s].state # "active")
         => (/\ RowsOf(rows', "normalize", s) # {}
             /\ RowsFailedWith(rows', "normalize", s, normQ[s].err)
             /\ normQ'[s].state \in {"waiting", "failed"}
             /\ normQ'[s].made = normQ[s].made + 1)
    /\ (normQ[s].state = "active" /\ normQ'[s].state = "completed")
         => normQ[s].pc = "check"

\* C7, processRender: the same for the variant and its rows.
C7_RenderStep ==
  \A i \in 1..Len(renderQ) :
    LET v == renderQ[i].vid IN
    /\ (AtRender(i, "catch") /\ renderQ'[i].pc = "rethrow")
         => (/\ renderQ[i].err # NoErr
             /\ v \in DOMAIN variants'
             /\ variants'[v].status = "failed"
             /\ variants'[v].err = renderQ[i].err)
    /\ (AtRender(i, "rethrow") /\ renderQ'[i].state # "active")
         => (/\ RowsOf(rows', "render", v) # {}
             /\ RowsFailedWith(rows', "render", v, renderQ[i].err)
             /\ renderQ'[i].state \in {"waiting", "failed"}
             /\ renderQ'[i].made = renderQ[i].made + 1)
    /\ (renderQ[i].state = "active" /\ renderQ'[i].state = "completed")
         => renderQ[i].pc = "ready"

\* C7, the state in which processNormalize re-raises: the segment is failed
\* with the message of the error being re-raised (it is not normalized, also
\* when the throw came after the segment had been updated).
C7_AtRethrow ==
  \A s \in DOMAIN normQ :
    AtNormalize(s, "rethrow")
      => seg[s].status = "failed" /\ seg[s].err = normQ[s].err

C8_ThreeAttemptsBeforeGivingUp ==
  /\ \A s \in DOMAIN normQ :
       normQ[s].state = "failed" => normQ[s].made = Attempts
  /\ \A i \in 1..Len(renderQ) :
       renderQ[i].state = "failed" => renderQ[i].made = Attempts

\* C9: once a manual reset was followed by a completed start-processing
\* request, no segment that still has to be normalized (status normalizing)
\* is left with a normalize job the queue has given up on: also a segment
\* whose previous job failed permanently has its job queued and run again.
C9_ResetRequeuesNormalize ==
  (used.resets > 0 /\ project = "processing" /\ req.pc = "idle")
    => \A s \in DOMAIN seg :
         seg[s].status = "normalizing"
           => s \in DOMAIN normQ /\ normQ[s].state # "failed"

\* the edges of the per-segment state machine, the upload and the reset
SegmentEdges ==
  {<<"uploading", "uploaded">>, <<"uploaded", "normalizing">>,
   <<"normalizing", "normalized">>, <<"normalizing", "failed">>,
   <<"failed", "uploaded">>, <<"normalizing", "uploaded">>}

\* C10: a segment's status changes only along uploaded -> normalizing ->
\* normalized and normalizing -> failed, and a failed segment leaves failed
\* only by the reset to uploaded, which clears error_message.
C10_SegmentStateMachine ==
  [][\A s \in DOMAIN seg :
       /\ seg'[s].status # seg[s].status
            => <<seg[s].status, seg'[s].status>> \in SegmentEdges
       /\ (seg[s].status = "failed" /\ seg'[s].status # "failed")
            => (seg'[s].status = "uploaded" /\ seg'[s].err = NoErr)]_vars

\* the edges of the per-variant state machine
VariantEdges ==
  {<<"pending", "rendering">>, <<"rendering", "rendered">>,
   <<"rendering", "failed">>}

\* C11: a variant's status changes only along pending -> rendering ->
\* rendered and rendering -> failed: while its row exists (a reset deletes
\* it) a failed variant stays failed and a rendered variant stays rendered.
C11_VariantStateMachine ==
  [][\A v \in DOMAIN variants \cap DOMAIN variants' :
       /\ variants'[v].status # variants[v].status
            => <<variants[v].status, variants'[v].status>> \in VariantEdges
       /\ variants[v].status \in {"failed", "rendered"}
            => variants'[v].status = variants[v].status]_vars

\* the processing_jobs rows of a target that are queued or active
OpenRows(ty, t) ==
  {i \in RowsOf(rows, ty, t) : rows[i].status \in {"queued", "active"}}

\* C12: per (job_type, target_id) there is at most one processing_jobs row
\* that is queued or active, and at most one queue job that is waiting or
\* active.
C12_OneOpenRowPerTarget ==
  /\ \A s \in DOMAIN seg : Cardinality(OpenRows("normalize", s)) <= 1
  /\ \A v \in DOMAIN variants :
       /\ Cardinality(OpenRows("render", v)) <= 1
       /\ Cardinality({i \in RenderJobsOf(v) : Live(renderQ[i])}) <= 1

\* the render jobs that were added with the jobId of their variant
KeyedRenderJobs == {i \in 1..Len(renderQ) : renderQ[i].keyed}

\* C13, the queue's state: no two jobs carry the jobId of the same variant
\* (the normalize queue holds its jobs by jobId).
C13_OneKeyedJobPerTarget ==
  \A i, j \in KeyedRenderJobs : renderQ[i].vid = renderQ[j].vid => i = j

\* C13, the steps: a second enqueueNormalize / enqueueRender for a target
\* whose job is waiting or active changes nothing in the queue, and a job
\* that has completed is not run again.
C13_Step ==
  /\ \A s \in AllSegs : EnqueueNormalizeAgain(s) => normQ' = normQ
  /\ \A i \in RenderSlots : EnqueueRenderAgain(i) => renderQ' = renderQ
  /\ \A s \in DOMAIN normQ :
       normQ[s].state = "completed" => normQ'[s] = normQ[s]
  /\ \A i \in KeyedRenderJobs :
       renderQ[i].state = "completed" => renderQ'[i] = renderQ[i]

\* C13: calling enqueueNormalize (enqueueRender) twice for the same segment
\* (variant) while the first job is waiting or active leaves exactly one job
\* for the target, and its handler runs to completion once.
C13_EnqueueTwiceOneJob ==
  []C13_OneKeyedJobPerTarget /\ [][C13_Step]_vars

\* C13 witness: both functions were called a second time while the first job
\* was waiting or active, and the one job of each target has completed.
C13_Witness ==
  /\ used.againN = MaxAgain /\ used.againR = MaxAgain
  /\ \E s \in DOMAIN normQ : normQ[s].state = "completed"
  /\ \E i \in KeyedRenderJobs :
       /\ renderQ[i].state = "completed"
       /\ renderQ[i].vid \in DOMAIN variants
       /\ variants[renderQ[i].vid].status = "rendered"

\* the rows of a target that a step turns into completed
RowsCompletedByStep(ty, t) ==
  {i \in RowsOf(rows, ty, t) :
     /\ i <= Len(rows')
     /\ rows[i].status # "completed"
     /\ rows'[i].status = "completed"}

\* C14, processNormalize: the row is active once the job starts; the segment
\* becomes normalized after the normalized file is stored and while the row
\* is still active; the row is completed (progress 100) after that; the
\* fan-in check runs last and reads the job's own segment as normalized.
C14_NormalizeOrder ==
  \A s \in DOMAIN normQ :
    /\ (normQ[s].state = "waiting" /\ normQ'[s].state = "active")
         => \A i \in RowsOf(rows', "normalize", s) : rows'[i].status = "active"
    /\ (seg[s].status # "normalized" /\ seg'[s].status = "normalized")
         => /\ normalizedSegmentKey(s) \in blob
            /\ \A i \in RowsOf(rows, "normalize", s) : rows[i].status = "active"
    /\ \A i \in RowsCompletedByStep("normalize", s) :
         seg[s].status = "normalized" /\ rows'[i].progress = 100 /\ rows'[i].done
    /\ (AtNormalize(s, "check") /\ normQ'[s].state = "completed")
         => /\ seg[s].status = "normalized"
            /\ \A i \in RowsOf(rows, "normalize", s) : rows[i].status = "completed"

\* C14, processRender: the same order, and checkProjectComplete reads the
\* job's own variant as rendered.
C14_RenderOrder ==
  \A k \in 1..Len(renderQ) :
    LET v == renderQ[k].vid IN
    /\ (renderQ[k].state = "waiting" /\ renderQ'[k].state = "active")
         => \A i \in RowsOf(rows', "render", v) : rows'[i].status = "active"
    /\ (AtRender(k, "update") /\ renderQ'[k].pc = "check")
         => /\ {variantVideoKey(v), variantHookClipKey(v),
                variantPosterKey(v)} \subseteq blob
            /\ \A i \in RowsOf(rows, "render", v) : rows[i].status = "active"
    /\ \A i \in RowsCompletedByStep("render", v) :
         /\ v \in DOMAIN variants
         /\ variants[v].status = "rendered"
         /\ rows'[i].progress = 100 /\ rows'[i].done
    /\ (AtRender(k, "check") /\ renderQ'[k].pc = "ready")
         => v \in DOMAIN variants /\ variants[v].status = "rendered"

\* C14: within one job execution the row is marked active, the work is done
\* and stored, the segment/variant is updated, the row is completed with
\* progress 100 and only then the fan-in check runs, so that the check of a
\* job observes the job's own segment/variant as normalized/rendered.
C14_StepOrder == [][C14_NormalizeOrder /\ C14_RenderOrder]_vars

\* C15: once processNormalize or processRender has returned or thrown (the
\* queue holds the job as waiting, completed or failed), the job's working
\* directory does not exist, at whichever step the execution ended.
C15_WorkDirRemoved ==
  /\ \A s \in DOMAIN normQ : normQ[s].state # "active" => ~normQ[s].dir
  /\ \A i \in 1..Len(renderQ) : renderQ[i].state # "active" => ~renderQ[i].dir

\* C15 witness: a normalize execution has thrown, a normalize job has
\* returned and a render execution has thrown.
C15_Witness ==
  /\ \E s \in DOMAIN normQ : normQ[s].made >= 1 /\ normQ[s].state # "active"
  /\ \E s \in DOMAIN normQ : normQ[s].state = "completed"
  /\ \E i \in 1..Len(renderQ) :
       renderQ[i].made >= 1 /\ renderQ[i].state # "active"

\* C16: apart from the manual reset (which sets draft) the project's status
\* changes only draft -> processing, by a start-processing request that found
\* the project draft, and processing -> ready, by the render fan-in check; a
\* request is accepted only on a draft project.
C16_ProjectTransitions ==
  [][/\ project' # project
          => \/ project' = "draft" /\ used'.resets = used.resets + 1
             \/ project = "draft" /\ project' = "processing"
             \/ project = "processing" /\ project' = "ready"
     /\ (req.pc = "idle" /\ req'.pc = "enqueue") => project = "draft"]_vars

\* C17: a start-processing request on a draft project whose considered
\* segments lack a hook, a body or a cta is answered with the validation
\* error and writes nothing: no variant row, the project stays draft, no
\* segment changes and no job is enqueued.
C17_ValidationRejects ==
  [][(/\ req.pc = "idle"
      /\ project = "draft"
      /\ ~HasEachType(Considered)
      /\ req' # req)
       => /\ req' = [req EXCEPT !.resp = errorResponse("Need at least one of each segment type")]
          /\ UNCHANGED <<project, seg, variants, gen, rows, blob, normQ, renderQ>>]_vars

\* C17 witness: the request was rejected for a project that has an uploaded
\* hook and an uploaded cta but no uploaded body.
C17_Witness ==
  /\ req.resp = errorResponse("Need at least one of each segment type")
  /\ project = "draft"
  /\ variants = <<>> /\ normQ = <<>> /\ rows = <<>>
  /\ \E s \in Considered : TypeOf(s) = "hook"
  /\ \E s \in Considered : TypeOf(s) = "cta"
  /\ ~\E s \in Considered : TypeOf(s) = "body"

\* the considered segments of a type
OfType(S, ty) == {s \in S : TypeOf(s) = ty}

\* C18, the variant rows: the request's insert adds exactly one row per
\* (hook, body, cta) triple of the considered segments, H x B x C rows with
\* pairwise distinct codes h{i}-b{j}-c{k}, all pending.
C18_VariantsStep ==
  (req.pc = "idle" /\ req'.pc = "enqueue")
    => LET new == DOMAIN variants' \ DOMAIN variants
           H == OfType(Considered, "hook")
           B == OfType(Considered, "body")
           C == OfType(Considered, "cta")
       IN /\ \A h \in H, b \in B, c \in C :
               Cardinality({v \in new : HookOf(v) = h /\ BodyOf(v) = b
                                        /\ CtaOf(v) = c}) = 1
          /\ Cardinality(new) = Cardinality(H) * Cardinality(B) * Cardinality(C)
          /\ \A v \in new :
               /\ variants'[v].status = "pending"
               /\ variants'[v].code =
                    variantCode(Considered, HookOf(v), BodyOf(v), CtaOf(v))
          /\ \A v, w \in new : variants'[v].code = variants'[w].code => v = w

\* C18, the normalize jobs: when the request has run its normalize loop,
\* every segment it found uploaded has one normalize job that is waiting or
\* active, and the loop added jobs for these segments only.
C18_JobsStep ==
  (req.pc = "enqueue" /\ req'.pc = "idle")
    => /\ \A s \in ToNormalize :
            s \in DOMAIN normQ' /\ normQ'[s].state \in {"waiting", "active"}
       /\ (DOMAIN normQ' \ DOMAIN normQ) \subseteq ToNormalize

\* C18: starting the pipeline creates exactly one variant row per (hook, body,
\* cta) triple and enqueues exactly one normalize job per segment that is not
\* already normalized (per distinct segment, not per variant).
C18_StartCreatesVariantsAndJobs == [][C18_VariantsStep /\ C18_JobsStep]_vars

\* the (hook, body, cta) triple of a variant row
TripleOf(v) == <<HookOf(v), BodyOf(v), CtaOf(v)>>

\* C19: the variants table never holds two rows with the same (project_id,
\* hook_segment_id, body_segment_id, cta_segment_id), whatever the
\* interleaving of concurrent start-processing requests.
C19_NoDuplicateVariants ==
  \A v, w \in DOMAIN variants : TripleOf(v) = TripleOf(w) => v = w

\* C19 witness: two requests ran concurrently; one inserted its variants and
\* the insert of the other was rejected.
C19_Witness ==
  /\ req.second.resp = errorResponse("Failed to create variants")
  /\ DOMAIN variants # {}
  /\ project = "processing"

\* C20: every variant row references, as hook, body and cta, segment rows of
\* the project (the one project of the model) whose types are hook, body
\* and cta respectively.
C20_VariantReferencesTyped ==
  \A v \in DOMAIN variants :
    /\ {HookOf(v), BodyOf(v), CtaOf(v)} \subseteq DOMAIN seg
    /\ TypeOf(HookOf(v)) = "hook"
    /\ TypeOf(BodyOf(v)) = "body"
    /\ TypeOf(CtaOf(v)) = "cta"

----------------------------------------------------------------------------
(* generateCombinations *)

OfTypeIn(segments, ty) == {segments[i] : i \in {j \in 1..Len(segments) : segments[j].type = ty}}

\* the bijections between the segments of X and the positions 1..|X| that
\* are sorted by sort_order
SortedPositions(X) ==
  {pos \in [X -> 1..Cardinality(X)] :
     /\ \A x, y \in X : x # y => pos[x] # pos[y]
     /\ \A x, y \in X : pos[x] < pos[y] => x.sort_order <= y.sort_order}

\* C21: for a list with at least one hook, one body and one cta,
\* generateCombinations throws nothing and returns exactly H x B x C
\* combinations, one per (hook, body, cta) triple, with pairwise distinct
\* codes h{i}-b{j}-c{k}, i, j and k being the 1-based positions of the three
\* segments in their per-type lists sorted by sort_order.
C21_CombinationsAndCodes ==
  (call.fn = "generateCombinations" /\ call.done) =>
    LET made == call.returned.combinations
        H == OfTypeIn(call.segments, "hook")
        B == OfTypeIn(call.segments, "body")
        C == OfTypeIn(call.segments, "cta")
    IN (H # {} /\ B # {} /\ C # {}) =>
         /\ ~call.returned.thrown
         /\ Len(made) = Cardinality(H) * Cardinality(B) * Cardinality(C)
         /\ {<<made[n].hook, made[n].body, made[n].cta>> : n \in 1..Len(made)}
              = H \X B \X C
         /\ \A m, n \in 1..Len(made) :
              m # n => made[m].variantCode # made[n].variantCode
         /\ \E ph \in SortedPositions(H), pb \in SortedPositions(B),
               pc \in SortedPositions(C) :
              \A n \in 1..Len(made) :
                made[n].variantCode =
                  "h" \o ToString(ph[made[n].hook]) \o "-b"
                      \o ToString(pb[made[n].body]) \o "-c"
                      \o ToString(pc[made[n].cta])

\* C21 witness: the function returned the two combinations of a list whose
\* first element is a hook of sort_order 1 and whose last element is a hook
\* of sort_order 0, the latter being h1.
C21_Witness ==
  /\ call.fn = "generateCombinations"
  /\ call.done
  /\ Len(call.segments) = 4
  /\ call.segments[1].type = "hook" /\ call.segments[1].sort_order = 1
  /\ call.segments[4].type = "hook" /\ call.segments[4].sort_order = 0
  /\ Len(call.returned.combinations) = 2
  /\ call.returned.combinations[1].hook = call.segments[4]
  /\ call.returned.combinations[1].variantCode = "h1-b1-c1"
  /\ call.returned.combinations[2].variantCode = "h2-b1-c1"

\* the variant_code a result gives the triple of segment ids (h, b, c)
CodeOf(returned, h, b, c) ==
  LET made == returned.combinations
      n == CHOOSE n \in 1..Len(made) :
             made[n].hook.id = h /\ made[n].body.id = b /\ made[n].cta.id = c
  IN made[n].variantCode

TriplesOf(returned) ==
  {<<returned.combinations[n].hook.id, returned.combinations[n].body.id,
     returned.combinations[n].cta.id>> : n \in 1..Len(returned.combinations)}

\* C22: generateCombinations called on a list of segments and called again
\* on any re-ordering of that list (sort_order values may repeat) gives every
\* (hook, body, cta) triple of segment ids the same code.
C22_CodesStableUnderReordering ==
  [][(call.fn = "generateCombinations" /\ call.done /\ call'.done) =>
       \A t \in TriplesOf(call.returned) :
         /\ t \in TriplesOf(call'.returned)
         /\ CodeOf(call'.returned, t[1], t[2], t[3])
              = CodeOf(call.returned, t[1], t[2], t[3])]_vars

----------------------------------------------------------------------------
(* assignVariant *)

RECURSIVE ReferenceLoop(_, _, _)
ReferenceLoop(h, input, i) ==
  IF i > Len(input) \/ h.lo < 0 THEN h
  ELSE LET lo == 31 * h.lo + input[i]
           u == (31 * h.hi + (lo \div Radix)) % Radix
       IN ReferenceLoop([hi |-> IF u >= HalfRadix THEN u - Radix ELSE u,
                         lo |-> lo % Radix], input, i + 1)

ReferenceHash(input) == ReferenceLoop([hi |-> 0, lo |-> 0], input, 1)

\* |h| mod count, |h| being at most 2^31
ReferenceIndex(h, count) ==
  LET hi == IF h.hi >= 0 THEN h.hi
            ELSE IF h.lo = 0 THEN 0 - h.hi ELSE 0 - h.hi - 1
      lo == IF h.hi >= 0 \/ h.lo = 0 THEN h.lo ELSE Radix - h.lo
  IN ((hi % count) * (Radix % count) + lo) % count

\* C24: for count >= 1 assignVariant returns |h| mod count, h being the
\* hash of viewerId + ":" + projectId computed as h := (31*h + c) wrapped to
\* a signed 32-bit integer; for h = -2^31 too the result is in [0, count).
C24_AssignEqualsReference ==
  (call.fn = "assignVariant" /\ call.variantCount >= 1
     /\ call.first # NotCalled) =>
    LET h == ReferenceHash(call.viewerId \o <<Colon>> \o call.projectId)
    IN /\ call.first = ReferenceIndex(h, call.variantCount)
       /\ call.first \in 0..(call.variantCount - 1)

\* C24 witness: the function was called with a count of 3 on an input whose
\* hash is -2^31 and returned 2^31 mod 3 = 2.
C24_Witness ==
  /\ call.fn = "assignVariant"
  /\ call.variantCount = 3
  /\ ReferenceHash(call.viewerId \o <<Colon>> \o call.projectId)
       = [hi |-> 0 - HalfRadix, lo |-> 0]
  /\ call.first = 2

----------------------------------------------------------------------------
(* Variant resolution *)

\* C25: a request for (slug, viewerId) goes on to the variants only if the
\* project of that slug is ready, and is answered with a variant only after
\* that; the variant returned is a row of the project with status rendered
\* and is the element at index assignVariant(viewerId, projectId, n) of the
\* project's n rendered variants ordered by variant_code; with n = 0 the
\* answer is "unavailable" and assignVariant is not called.
C25_Step ==
  /\ (call'.fn = "embed" /\ call'.pc = "variants" /\ call' # call)
       => (call'.slug = ProjectSlug /\ project = "ready")
  /\ (call'.fn = "embed" /\ call'.pc = "done" /\ call' # call
        /\ call'.response.status = 200)
       => /\ call.fn = "embed" /\ call.pc = "variants"
          /\ call'.slug = call.slug /\ call'.viewerId = call.viewerId
          /\ LET rendered == {v \in DOMAIN variants :
                                variants[v].status = "rendered"}
                 n == Cardinality(rendered)
                 chosen == call'.response.variantId
             IN /\ n > 0
                /\ chosen \in rendered
                /\ call'.assigned = assignVariant(call.viewerId, ProjectId, n)
                /\ call'.response.variantCode = variants[chosen].code
                /\ Cardinality({v \in rendered :
                       CodeRank(variants[v].code)
                         < CodeRank(variants[chosen].code)}) = call'.assigned
  /\ (call.fn = "embed" /\ call.pc = "variants" /\ call' # call
        /\ ~ \E v \in DOMAIN variants : variants[v].status = "rendered")
       => /\ call'.response.status = 404
          /\ call'.assigned = NotCalled

C25_VariantResolution == [][C25_Step]_vars

\* C25 witness: with two rendered variants a viewer was assigned index 1 and
\* answered with the variant of code h2-b1-c1.
C25_Witness ==
  /\ call.fn = "embed"
  /\ call.pc = "done"
  /\ call.response.status = 200
  /\ call.assigned = 1
  /\ call.response.variantCode = "h2-b1-c1"
  /\ project = "ready"

\* a request that found the project ready and then no rendered variant
C25_WitnessNone ==
  /\ call.fn = "embed"
  /\ call.pc = "done"
  /\ call.response = NoRenderedVariants

----------------------------------------------------------------------------
(* needsNormalization *)

MetadataFields ==
  {"width", "height", "fps", "video_codec", "audio_codec",
   "audio_sample_rate", "audio_channels", "has_audio"}

\* the metadata a file that conforms to the spec has
DerivedFrom(spec) ==
  [width |-> spec.width, height |-> spec.height, fps |-> spec.fps,
   video_codec |-> targetCodecName(spec),
   audio_codec |-> targetAudioCodec(spec),
   audio_sample_rate |-> spec.audioRate,
   audio_channels |-> spec.audioChannels, has_audio |-> TRUE]

DifferingFields(metadata, spec) ==
  {f \in MetadataFields : metadata[f] # DerivedFrom(spec)[f]}

\* the reason that names a field
ReasonFor(f) ==
  CASE f \in {"width", "height"} -> "resolution"
    [] f = "fps" -> "fps"
    [] f = "video_codec" -> "video codec"
    [] f = "audio_codec" -> "audio codec"
    [] f = "audio_sample_rate" -> "audio rate"
    [] f = "audio_channels" -> "audio channels"
    [] f = "has_audio" -> "no audio track"

\* C26: when every field of the metadata equals the value derived from the
\* spec, needed is false and reasons is empty; when exactly one field
\* differs, needed is true and reasons holds exactly one entry, the one
\* that names that field; without an audio track needed is true.
C26_MatcherDecision ==
  (call.fn = "needsNormalization" /\ call.done) =>
    LET diff == DifferingFields(call.metadata, call.spec)
    IN /\ diff = {} =>
            (~call.returned.needed /\ call.returned.reasons = <<>>)
       /\ \A f \in diff :
            diff = {f} => /\ call.returned.needed
                          /\ call.returned.reasons = <<ReasonFor(f)>>
       /\ ~call.metadata.has_audio => call.returned.needed

----------------------------------------------------------------------------
(* The transcode decision of processNormalize *)

\* C27: an execution of processNormalize invokes normalizeVideo if and only
\* if needsNormalization reports needed = true, and remuxWithFaststart
\* otherwise; for a segment whose probed metadata equals the values derived
\* from the project's spec it remuxes.  On either path the output is stored
\* under the segment's normalized key and the segment becomes normalized
\* with that key.
C27_Step ==
  \A s \in DOMAIN normQ :
    LET check == needsNormalization(Probed[s], DEFAULT_SPEC)
    IN /\ (AtNormalize(s, "work") /\ normQ'[s].pc = "update") =>
            /\ normQ[s].ran = "-"
            /\ normQ'[s].ran = "normalizeVideo" <=> check.needed
            /\ normQ'[s].ran = "remuxWithFaststart" <=> ~check.needed
            /\ DifferingFields(Probed[s], DEFAULT_SPEC) = {}
                 => normQ'[s].ran = "remuxWithFaststart"
            /\ normalizedSegmentKey(s) \in blob'
       /\ (AtNormalize(s, "update") /\ normQ'[s].pc = "complete") =>
            /\ normQ[s].ran \in {"normalizeVideo", "remuxWithFaststart"}
            /\ normQ'[s].ran = normQ[s].ran
            /\ seg'[s].status = "normalized"
            /\ seg'[s].nkey
            /\ normalizedSegmentKey(s) \in blob'
       /\ (normQ'[s].ran # normQ[s].ran /\ normQ'[s].ran # "-") =>
            (AtNormalize(s, "work") /\ normQ'[s].pc = "update")

----------------------------------------------------------------------------
(* The frame of a manual reset *)

\* C28: a manual reset sets the segments whose status is failed or
\* normalizing to uploaded and clears their error_message, changing nothing
\* else of them; every other segment row, the set of segments and every
\* stored file are left as they were.
C28_Step ==
  used'.resets # used.resets =>
    /\ DOMAIN seg' = DOMAIN seg
    /\ \A s \in DOMAIN seg :
         IF seg[s].status \in {"failed", "normalizing"}
           THEN seg'[s] = [seg[s] EXCEPT !.status = "uploaded", !.err = NoErr]
           ELSE seg'[s] = seg[s]
    /\ blob' = blob

----------------------------------------------------------------------------
(* POST /api/track *)

\* C29: every request to POST /api/track, whatever its body (malformed
\* JSON, no event, no variantId), is answered with a success status.
C29_TrackNeverFails ==
  (call.fn = "track" /\ call.done) => call.response.status = 200

----------------------------------------------------------------------------
(* The fan-in barrier *)

\* every normalize job that was enqueued has returned from its handler, the
\* fan-in check at its end included
ChecksFinished ==
  /\ req.pc = "idle"
  /\ DOMAIN normQ # {}
  /\ \A s \in DOMAIN normQ : normQ[s].state = "completed"

\* the render jobs a fan-in check added (the route's own jobs carry a jobId)
AddedByCheck == {i \in 1..Len(renderQ) : ~renderQ[i].keyed}

\* C30: once every segment of a processing project is normalized and every
\* fan-in check of the normalize completions has finished, every variant of
\* the project (each was created pending) has a render job in the render
\* queue, and at least one check saw the barrier satisfied and added jobs,
\* however the concurrent completions interleaved.
C30_NoMissedBarrier ==
  (project = "processing" /\ AllNormalized /\ ChecksFinished)
    => /\ \A v \in DOMAIN variants : RenderJobsOf(v) # {}
       /\ DOMAIN variants # {} => AddedByCheck # {}

\* the barrier is passed with no render job taken yet, and two checks that
\* finished concurrently both saw it satisfied
C30_Witness ==
  /\ project = "processing" /\ AllNormalized /\ ChecksFinished
  /\ Cardinality(DOMAIN variants) = 2
  /\ \A v \in DOMAIN variants : variants[v].status = "pending"
  /\ \E v \in DOMAIN variants : Cardinality(RenderJobsOf(v) \cap AddedByCheck) = 2

----------------------------------------------------------------------------
(* Working directories *)

\* C31: two executions that run at the same time never use the same working
\* directory, so an execution that is downloading, probing, encoding or
\* uploading always finds its directory: no other execution's cleanup has
\* removed it.
C31_WorkDirNotShared ==
  \A s \in DOMAIN normQ : AtNormalize(s, "work") => normQ[s].dir

----------------------------------------------------------------------------
(* Progress reports *)

IsPrefix(p, q) == Len(p) <= Len(q) /\ \A k \in 1..Len(p) : p[k] = q[k]

\* every job's reports so far are the first ones of the given lists, a
\* finished job has reported the whole list, and 100 is among a job's
\* reports only when the execution has written the final status
ReportsFollow(normalizeList, renderList) ==
  /\ \A s \in DOMAIN normQ :
       /\ IsPrefix(normQ[s].reported, normalizeList)
       /\ normQ[s].state = "completed" => normQ[s].reported = normalizeList
       /\ (\E k \in 1..Len(normQ[s].reported) : normQ[s].reported[k] = 100)
            => normQ[s].wrote /\ seg[s].status = "normalized"
  /\ \A i \in 1..Len(renderQ) :
       /\ IsPrefix(renderQ[i].reported, renderList)
       /\ renderQ[i].state = "completed" => renderQ[i].reported = renderList
       /\ (\E k \in 1..Len(renderQ[i].reported) : renderQ[i].reported[k] = 100)
            => renderQ[i].wrote

\* C32 as stated: a successful normalize execution reports exactly 10, 20,
\* 30, 70, 90, 100 in that order and a render execution exactly 10, 30, 50,
\* 60, 75, 85, 90, 100; the reports never decrease and 100 comes only after
\* the segment or variant was updated to normalized or rendered.
C32_ProgressAsStated ==
  ReportsFollow(<<10, 20, 30, 70, 90, 100>>,
                <<10, 30, 50, 60, 75, 85, 90, 100>>)

\* C32, amended: the normalize execution reports exactly 10, 20, 30, 70, 90,
\* 95, 100 in that order (95 after the job row is completed, before the
\* original is deleted); the render list, the order and the place of 100 are
\* as stated.
C32_ProgressMilestones ==
  ReportsFollow(<<10, 20, 30, 70, 90, 95, 100>>,
                <<10, 30, 50, 60, 75, 85, 90, 100>>)

\* a normalize job and a render job have both finished, with every report
\* made
C32_Witness ==
  /\ \E s \in DOMAIN normQ :
       normQ[s].state = "completed" /\ Len(normQ[s].reported) = 7
  /\ \E i \in 1..Len(renderQ) :
       renderQ[i].state = "completed" /\ Len(renderQ[i].reported) = 8

----------------------------------------------------------------------------
(* The hook's duration *)

\* C33: every rendered variant has as hook_end_time_ms the
\* normalized_duration_ms of its hook segment, which is the value its render
\* job carried in its payload, and no render job is in the queue with a
\* missing (null) hook duration.
C33_HookDurationCarried ==
  /\ \A v \in DOMAIN variants :
       variants[v].status = "rendered"
         => /\ variants[v].hook_end_time_ms = seg[HookOf(v)].ndur
            /\ \E i \in RenderJobsOf(v) :
                 renderQ[i].hookDurationMs = variants[v].hook_end_time_ms
  /\ \A i \in 1..Len(renderQ) : renderQ[i].hookDurationMs # Null

\* both variants are rendered, one whose hook has a duration and one whose
\* hook's file gave ffprobe no duration
C33_Witness ==
  /\ \E v \in DOMAIN variants :
       variants[v].status = "rendered" /\ variants[v].hook_end_time_ms = 4000
  /\ \E v \in DOMAIN variants :
       variants[v].status = "rendered" /\ variants[v].hook_end_time_ms = 0

----------------------------------------------------------------------------
(* Ready with no variants *)

\* C34: the fan-in check of a completing render job marks the project ready
\* only if the project has at least one variant row: a check that reads the
\* variants of a project that has none (a reset deleted them and they are
\* not created again yet) does not decide for ready.
C34_ReadyNeedsVariants ==
  [][\A i \in RenderSlots :
       (AtRender(i, "check") /\ DOMAIN variants = {} /\ renderQ' # renderQ
        /\ i <= Len(renderQ'))
         => ~renderQ'[i].saw]_vars

----------------------------------------------------------------------------
(* Error responses of start-processing *)

\* C35: a step in which start-processing answers with an error (project not
\* draft, validation failure, variant insert failure, a segment missing its
\* uploaded file) changes no persistent state: not the project's status, no
\* variant or processing_jobs row, no segment, no queue.
C35_ErrorChangesNothing ==
  [][(req'.resp # req.resp /\ req'.resp.status = 400)
       => UNCHANGED <<project, seg, variants, rows, normQ, renderQ>>]_vars

----------------------------------------------------------------------------
(* error_message *)

\* C36: a segment or a variant has an error_message only while its status is
\* failed: a normalized segment and a rendered variant have none, also when
\* a failed attempt was followed by a successful retry.
C36_ErrorOnlyWhileFailed ==
  /\ \A s \in DOMAIN seg :
       seg[s].status = "normalized" => seg[s].err = NoErr
  /\ \A v \in DOMAIN variants :
       variants[v].status = "rendered" => variants[v].err = NoErr

====
